---- MODULE Spec2Model ----
(***************************************************************************)
(* A model of the TDMS reader: the file indexer (tokio-tdms/src/lib.rs),   *)
(* the segment indexer and the lead-in / metadata parsers                  *)
(* (tdms-format/src/segment.rs), the data-type registry                    *)
(* (tdms-format/src/data_type.rs) and the channel iterator                 *)
(* (tdms/src/channel_iter.rs).                                             *)
(*                                                                         *)
(* A file is a sequence of bytes (0..255).  Files are produced from a      *)
(* small description by a writer that follows the TDMS on-disk format;     *)
(* the reader is translated from the source and works on the bytes only.   *)
(*                                                                         *)
(* Numbers: TLC integers are 32 bit, so a decoded u32/u64 is kept as its   *)
(* canonical little-endian byte sequence and turned into an integer only   *)
(* when it is below 2^31 (2^31 - 1 stands for every larger value; such a    *)
(* value only ever takes part in comparisons against file offsets).        *)
(***************************************************************************)
EXTENDS Integers, Sequences, FiniteSets, TLC

\* ------------------------------------------------------------------------
\* Bounds of the model
\* ------------------------------------------------------------------------
MaxChunks == 2
MaxVals == 2
MaxCalls == 7

\* ------------------------------------------------------------------------
\* Program constants
\* ------------------------------------------------------------------------
LeadInSize == 28
K_TOC_META_DATA == 2
K_TOC_NEW_OBJ_LIST == 4
K_TOC_RAW_DATA == 8
K_TOC_INTERLEAVED_DATA == 32
K_TOC_BIG_ENDIAN == 64
K_TOC_DAQMX_RAW_DATA == 128

None == [none |-> TRUE]

\* ------------------------------------------------------------------------
\* Bytes and integers
\* ------------------------------------------------------------------------
Reverse(s) == [i \in 1..Len(s) |-> s[Len(s) + 1 - i]]

Pow256(i) == CASE i = 0 -> 1 [] i = 1 -> 256 [] i = 2 -> 65536 [] OTHER -> 16777216

\* n < 2^31 as w little-endian bytes
EncLE(n, w) == [i \in 1..w |-> IF i <= 4 THEN (n \div Pow256(i - 1)) % 256 ELSE 0]

Enc(n, w, big) == IF big THEN Reverse(EncLE(n, w)) ELSE EncLE(n, w)

\* from_le_bytes / from_be_bytes: the canonical (little-endian) bytes of the number
FromBytes(buf, big) == IF big THEN Reverse(buf) ELSE buf

\* the integer a canonical byte sequence stands for
ToInt(c) ==
    IF \E i \in 1..Len(c) : (i > 4 /\ c[i] # 0) \/ (i = 4 /\ c[i] >= 128)
    THEN 2147483647
    ELSE (IF Len(c) >= 1 THEN c[1] ELSE 0) + (IF Len(c) >= 2 THEN c[2] * 256 ELSE 0)
         + (IF Len(c) >= 3 THEN c[3] * 65536 ELSE 0) + (IF Len(c) >= 4 THEN c[4] * 16777216 ELSE 0)

\* bit test on a small flag word
HasBit(word, mask) == (word \div mask) % 2 = 1

\* bytes [from, from + n) of a sequence, cut short at its end (0-based offsets)
Slice(s, from, n) ==
    LET hi == IF from + n > Len(s) THEN Len(s) ELSE from + n
    IN  IF from >= hi THEN << >> ELSE [i \in 1..(hi - from) |-> s[from + i]]

RECURSIVE Flatten(_)
Flatten(ss) == IF ss = << >> THEN << >> ELSE Head(ss) \o Flatten(Tail(ss))

RECURSIVE SumSeq(_)
SumSeq(s) == IF s = << >> THEN 0 ELSE Head(s) + SumSeq(Tail(s))

\* ------------------------------------------------------------------------
\* Data-type registry
\* ------------------------------------------------------------------------
T_Void == 0
T_I8 == 1
T_I16 == 2
T_I32 == 3
T_I64 == 4
T_DoubleFloat == 10
T_String == 32
T_Boolean == 33
T_DAQmxRawData == -1

\* a registry with the complex types at 0x0800000C and 0x1000000D
TypeCodes_complex_at_bit_27 ==
    (0..11) \cup {25, 26, 27, 32, 33, 68, 79, 134217740, 268435469, -1}

KnownTypeCodes == (0..11) \cup {25, 26, 27, 32, 33, 68, 79, 524300, 1048589, -1}

\* TdmsDataType::try_from followed by get_size: the byte size the variant carries
get_size(code) ==
    CASE code \in {1, 5, 33} -> 1
      [] code \in {2, 6} -> 2
      [] code \in {3, 7, 9, 25} -> 4
      [] code \in {4, 8, 10, 26} -> 8
      [] code \in {11, 27, 79} -> 10
      [] code = 68 -> 16
      [] code = 524300 -> 4
      [] code = 1048589 -> 8
      [] OTHER -> 0

\* ------------------------------------------------------------------------
\* The writer: a TDMS file from its description (on-disk format)
\* ------------------------------------------------------------------------
TagBytes == <<84, 68, 83, 109>>
Slash == 47
Quote == 39

\* /'g'/'c' for group name g and channel name c
ChanPath(g, c) == <<Slash, Quote>> \o g \o <<Quote, Slash, Quote>> \o c \o <<Quote>>

StrTotal(strs) == SumSeq([i \in 1..Len(strs) |-> Len(strs[i])])

\* number_of_bytes of a string index: offset table plus payload
StrBytes(o) == 4 * o.nvals + StrTotal(o.strs)

WObjBytes(o, big) ==
    Enc(Len(o.path), 4, big) \o o.path
    \o (CASE o.idx = "std" ->
              Enc(IF o.dtype = T_String THEN 28 ELSE 20, 4, big)
              \o Enc(o.dtype, 4, big) \o Enc(1, 4, big) \o Enc(o.nvals, 8, big)
              \o (IF o.dtype = T_String THEN Enc(StrBytes(o), 8, big) ELSE << >>)
          [] o.idx = "same" -> Enc(0, 4, big)
          [] o.idx = "daqmx" ->
              \* format changing scaler word, the DAQmx type, dimension, values,
              \* no scaler, one buffer of 4 bytes
              Enc(4713, 4, big) \o <<255, 255, 255, 255>> \o Enc(1, 4, big)
              \o Enc(o.nvals, 8, big) \o Enc(0, 4, big) \o Enc(1, 4, big) \o Enc(4, 4, big)
          [] o.idx = "lines" ->
              \* digital line scaler word, the DAQmx type, dimension, values,
              \* one buffer of 4 bytes
              Enc(4714, 4, big) \o <<255, 255, 255, 255>> \o Enc(1, 4, big)
              \o Enc(o.nvals, 8, big) \o Enc(1, 4, big) \o Enc(4, 4, big)
          [] OTHER -> <<255, 255, 255, 255>>)
    \o Enc(0, 4, big)

WMetaBytes(sd) ==
    Enc(Len(sd.objs), 4, sd.big)
    \o Flatten([i \in 1..Len(sd.objs) |-> WObjBytes(sd.objs[i], sd.big)])

\* the index in force for path p in segment k: the latest explicit one up to k
RECURSIVE WLastStd(_, _, _)
WLastStd(descs, k, p) ==
    IF k = 0 THEN None
    ELSE LET hits == {i \in 1..Len(descs[k].objs) :
                         descs[k].objs[i].path = p /\ descs[k].objs[i].idx = "std"}
         IN  IF hits # {} THEN descs[k].objs[CHOOSE i \in hits : TRUE]
             ELSE WLastStd(descs, k - 1, p)

\* the channels that have raw data in segment k, in metadata order
WEff(descs, k) ==
    LET objs == descs[k].objs
        F[i \in 0..Len(objs)] ==
            IF i = 0 THEN << >>
            ELSE IF objs[i].idx \in {"std", "same"} /\ WLastStd(descs, k, objs[i].path) # None
                 THEN Append(F[i - 1], WLastStd(descs, k, objs[i].path))
                 ELSE F[i - 1]
    IN  F[Len(objs)]

WSpan(o) == IF o.dtype = T_String THEN StrBytes(o) ELSE get_size(o.dtype) * o.nvals

WRowSize(eff) == SumSeq([i \in 1..Len(eff) |-> get_size(eff[i].dtype)])

WChunkSize(eff, inter) ==
    IF eff = << >> THEN 0
    ELSE IF inter THEN WRowSize(eff) * eff[1].nvals
    ELSE SumSeq([i \in 1..Len(eff) |-> WSpan(eff[i])])

\* offset of channel i inside a contiguous chunk
WChanOff(eff, i) == SumSeq([j \in 1..(i - 1) |-> WSpan(eff[j])])

\* offset of channel i inside an interleaved row
WRowOff(eff, i) == SumSeq([j \in 1..(i - 1) |-> get_size(eff[j].dtype)])

\* every numeric sample stores its own file offset, so a value names its place
WNumBytes(o, at, big) ==
    LET w == get_size(o.dtype)
    IN  Flatten([v \in 1..o.nvals |-> Enc(at + (v - 1) * w, w, big)])

WStrCum(strs, v) == SumSeq([j \in 1..v |-> Len(strs[j])])

WStrChunk(o, big) ==
    Flatten([v \in 1..o.nvals |-> Enc(WStrCum(o.strs, v), 4, big)]) \o Flatten(o.strs)

WChunkBytes(eff, inter, big, at) ==
    IF inter
    THEN Flatten([r \in 1..(IF eff = << >> THEN 0 ELSE eff[1].nvals) |->
             Flatten([i \in 1..Len(eff) |->
                 Enc(at + (r - 1) * WRowSize(eff) + WRowOff(eff, i),
                     get_size(eff[i].dtype), big)])])
    ELSE Flatten([i \in 1..Len(eff) |->
             IF eff[i].dtype = T_String THEN WStrChunk(eff[i], big)
             ELSE WNumBytes(eff[i], at + WChanOff(eff, i), big)])

WToc(sd) ==
    (IF sd.meta THEN K_TOC_META_DATA ELSE 0) + (IF sd.newobj THEN K_TOC_NEW_OBJ_LIST ELSE 0)
    + (IF sd.nchunks > 0 THEN K_TOC_RAW_DATA ELSE 0)
    + (IF sd.inter THEN K_TOC_INTERLEAVED_DATA ELSE 0) + (IF sd.big THEN K_TOC_BIG_ENDIAN ELSE 0)

WMetaLen(sd) == IF sd.meta THEN Len(WMetaBytes(sd)) ELSE 0

WSegLen(descs, k) ==
    LeadInSize + WMetaLen(descs[k]) + descs[k].nchunks * WChunkSize(WEff(descs, k), descs[k].inter)

\* file offset of the lead-in of segment k
WSegStart(descs, k) == SumSeq([j \in 1..(k - 1) |-> WSegLen(descs, j)])

\* file offset of the first raw-data byte of segment k
WDataStart(descs, k) == WSegStart(descs, k) + LeadInSize + WMetaLen(descs[k])

WSegBytes(descs, k) ==
    LET sd == descs[k]
        eff == WEff(descs, k)
        cs == WChunkSize(eff, sd.inter)
    IN  TagBytes \o EncLE(WToc(sd), 4) \o Enc(4713, 4, sd.big)
        \o Enc(WMetaLen(sd) + sd.nchunks * cs, 8, sd.big) \o Enc(WMetaLen(sd), 8, sd.big)
        \o (IF sd.meta THEN WMetaBytes(sd) ELSE << >>)
        \o Flatten([c \in 1..sd.nchunks |->
               WChunkBytes(eff, sd.inter, sd.big, WDataStart(descs, k) + (c - 1) * cs)])

WFileBytes(descs) == Flatten([k \in 1..Len(descs) |-> WSegBytes(descs, k)])

\* ------------------------------------------------------------------------
\* Results of fallible operations: Ok, Err(e) and a panic of the thread
\* ------------------------------------------------------------------------
Err(e) == [st |-> "err", err |-> e]
Panic == [st |-> "panic"]

\* the TdmsError a failed result carries ("" when it is not an Err)
ErrOf(r) == IF r.st = "err" THEN r.err ELSE ""

\* to_u32! / to_u64! / to_i32! at offset pos of r (canonical bytes)
WordAt(r, pos, n, big) == FromBytes(Slice(r, pos, n), big)

\* the i32 a canonical 4-byte word stands for; -2 stands for any negative but -1
ToI32(c) == IF c = <<255, 255, 255, 255>> THEN -1 ELSE IF c[4] >= 128 THEN -2 ELSE ToInt(c)

\* String::from_utf8 on the byte strings of the model (ASCII only is accepted)
IsUtf8(bs) == \A i \in 1..Len(bs) : bs[i] < 128

\* ------------------------------------------------------------------------
\* LeadIn::from_bytes
\* ------------------------------------------------------------------------
\* a parser that does not look at the tag
LeadIn_tag_unchecked(lead_in) ==
    IF Len(lead_in) < 28 THEN Panic
    ELSE LET table_of_contents == ToInt(Slice(lead_in, 4, 4))
             big == HasBit(table_of_contents, K_TOC_BIG_ENDIAN)
         IN  [st |-> "ok",
              tag |-> Slice(lead_in, 0, 4),
              table_of_contents |-> table_of_contents,
              version_number |-> ToInt(WordAt(lead_in, 8, 4, big)),
              next_segment_offset |-> ToInt(WordAt(lead_in, 12, 8, big)),
              raw_data_offset |-> ToInt(WordAt(lead_in, 20, 8, big))]

\* a parser that takes the version number for little-endian in every segment
LeadIn_version_little_endian(lead_in) ==
    IF Len(lead_in) < 4 THEN Panic
    ELSE IF Slice(lead_in, 0, 4) # TagBytes THEN Err("InvalidSegment")
    ELSE IF Len(lead_in) < 28 THEN Panic
    ELSE LET table_of_contents == ToInt(Slice(lead_in, 4, 4))
             big == HasBit(table_of_contents, K_TOC_BIG_ENDIAN)
         IN  [st |-> "ok",
              tag |-> Slice(lead_in, 0, 4),
              table_of_contents |-> table_of_contents,
              version_number |-> ToInt(WordAt(lead_in, 8, 4, FALSE)),
              next_segment_offset |-> ToInt(WordAt(lead_in, 12, 8, big)),
              raw_data_offset |-> ToInt(WordAt(lead_in, 20, 8, big))]

LeadIn_from_bytes(lead_in) ==
    IF Len(lead_in) < 4 THEN Panic
    ELSE IF Slice(lead_in, 0, 4) # TagBytes THEN Err("InvalidSegment")
    ELSE IF Len(lead_in) < 28 THEN Panic
    ELSE LET table_of_contents == ToInt(Slice(lead_in, 4, 4))
             big == HasBit(table_of_contents, K_TOC_BIG_ENDIAN)
         IN  [st |-> "ok",
              tag |-> Slice(lead_in, 0, 4),
              table_of_contents |-> table_of_contents,
              version_number |-> ToInt(WordAt(lead_in, 8, 4, big)),
              next_segment_offset |-> ToInt(WordAt(lead_in, 12, 8, big)),
              raw_data_offset |-> ToInt(WordAt(lead_in, 20, 8, big))]

\* ------------------------------------------------------------------------
\* RawDataIndex::from_reader, DAQmxDataIndex::from_reader,
\* MetadataProperty::from_reader, Metadata::from_reader
\* ------------------------------------------------------------------------
NoIndex == [some |-> FALSE]

\* the word before the index taken as its type code
RawDataIndex_type_in_sentinel(r, pos, big) ==
    LET data_type == ToI32(WordAt(r, pos - 4, 4, big))
    IN  IF data_type \notin KnownTypeCodes THEN Err("UnknownDataType")
        ELSE IF pos + 12 > Len(r) THEN Panic
        ELSE [st |-> "ok", kind |-> "raw",
              index |-> [some |-> TRUE,
                         data_type |-> data_type,
                         array_dimension |-> ToInt(WordAt(r, pos, 4, big)),
                         number_of_values |-> ToInt(WordAt(r, pos + 4, 8, big)),
                         number_of_bytes |-> -1],
              pos |-> pos + 12]

RawDataIndex_from_reader(r, pos, big) ==
    IF pos + 4 > Len(r) THEN Panic
    ELSE LET data_type == ToI32(WordAt(r, pos, 4, big))
         IN  IF data_type \notin KnownTypeCodes THEN Err("UnknownDataType")
             ELSE IF pos + 8 > Len(r) \/ pos + 16 > Len(r) THEN Panic
             ELSE IF data_type = T_String /\ pos + 24 > Len(r) THEN Panic
             ELSE [st |-> "ok", kind |-> "raw",
                   index |-> [some |-> TRUE,
                              data_type |-> data_type,
                              array_dimension |-> ToInt(WordAt(r, pos + 4, 4, big)),
                              number_of_values |-> ToInt(WordAt(r, pos + 8, 8, big)),
                              number_of_bytes |->
                                  IF data_type = T_String
                                  THEN ToInt(WordAt(r, pos + 16, 8, big)) ELSE -1],
                   pos |-> IF data_type = T_String THEN pos + 24 ELSE pos + 16]

\* FormatChangingScaler::from_reader, n of them in a row
RECURSIVE Scalers_from_reader(_, _, _, _)
Scalers_from_reader(r, pos, big, n) ==
    IF n = 0 THEN [st |-> "ok", pos |-> pos]
    ELSE IF pos + 4 > Len(r) THEN Panic
    ELSE IF ToI32(WordAt(r, pos, 4, big)) \notin KnownTypeCodes THEN Err("UnknownDataType")
    ELSE IF pos + 20 > Len(r) THEN Panic
    ELSE Scalers_from_reader(r, pos + 20, big, n - 1)

DAQmxDataIndex_from_reader(r, pos, big, is_format_changing) ==
    IF pos + 4 > Len(r) THEN Panic
    ELSE IF WordAt(r, pos, 4, big) # <<255, 255, 255, 255>> THEN Err("InvalidDAQmxDataIndex")
    ELSE IF pos + 16 > Len(r) THEN Panic
    ELSE LET array_dimension == ToInt(WordAt(r, pos + 4, 4, big))
             number_of_values == ToInt(WordAt(r, pos + 8, 8, big))
             sc == IF is_format_changing
                   THEN IF pos + 20 > Len(r) THEN Panic
                        ELSE Scalers_from_reader(r, pos + 20, big,
                                                 ToInt(WordAt(r, pos + 16, 4, big)))
                   ELSE [st |-> "ok", pos |-> pos + 16]
         IN  IF sc.st # "ok" THEN sc
             ELSE IF sc.pos + 4 > Len(r) THEN Panic
             ELSE LET buffer_vec_size == ToInt(WordAt(r, sc.pos, 4, big))
                  IN  IF buffer_vec_size > (Len(r) - sc.pos - 4) \div 4 THEN Panic
                      ELSE [st |-> "ok", kind |-> "daqmx",
                            index |-> [some |-> TRUE,
                                       data_type |-> T_DAQmxRawData,
                                       array_dimension |-> array_dimension,
                                       number_of_values |-> number_of_values,
                                       buffer_vec_size |-> buffer_vec_size],
                            pos |-> sc.pos + 4 + 4 * buffer_vec_size]

\* TDMSValue::from_reader: the bytes a property value of a type takes
\* (-1: a u32 length followed by that many bytes)
ValueWidth(code) ==
    CASE code = 0 -> 0
      [] code \in {1, 5, 33} -> 1
      [] code \in {2, 6} -> 2
      [] code \in {3, 7, 9, 25} -> 4
      [] code \in {4, 8, 10, 26, 524300, -1} -> 8
      [] code \in {11, 27, 79} -> 10
      [] code \in {68, 1048589} -> 16
      [] OTHER -> -1

MetadataProperty_from_reader(r, pos, big) ==
    IF pos + 4 > Len(r) THEN Panic
    ELSE LET length == ToInt(WordAt(r, pos, 4, big))
             p1 == pos + 4 + length
         IN  IF length > Len(r) - pos - 4 THEN Panic
             ELSE IF ~IsUtf8(Slice(r, pos + 4, length)) THEN Err("StringConversionError")
             ELSE IF p1 + 4 > Len(r) THEN Panic
             ELSE LET data_type == ToI32(WordAt(r, p1, 4, big))
                      w == ValueWidth(data_type)
                  IN  IF data_type \notin KnownTypeCodes THEN Err("UnknownDataType")
                      ELSE IF w >= 0
                           THEN IF p1 + 4 + w > Len(r) THEN Panic
                                ELSE [st |-> "ok", pos |-> p1 + 4 + w]
                           ELSE IF p1 + 8 > Len(r) THEN Panic
                                ELSE LET sl == ToInt(WordAt(r, p1 + 4, 4, big))
                                     IN  IF sl > Len(r) - p1 - 8 THEN Panic
                                         ELSE [st |-> "ok", pos |-> p1 + 8 + sl]

RECURSIVE Properties_from_reader(_, _, _, _)
Properties_from_reader(r, pos, big, n) ==
    IF n = 0 THEN [st |-> "ok", pos |-> pos]
    ELSE LET p == MetadataProperty_from_reader(r, pos, big)
         IN  IF p.st # "ok" THEN p ELSE Properties_from_reader(r, p.pos, big, n - 1)

FormatChangingWords == {<<0, 0, 18, 105>>, <<105, 18, 0, 0>>}
DigitalLineWords == {<<0, 0, 19, 105>>, <<106, 18, 0, 0>>, <<105, 19, 0, 0>>}
NoIndexWords == {<<255, 255, 255, 255>>, <<0, 0, 0, 0>>}

\* one object of the metadata: path, sentinel word, index, properties
MetadataObject_from_reader(r, pos, big) ==
    IF pos + 4 > Len(r) THEN Panic
    ELSE LET length == ToInt(WordAt(r, pos, 4, big))
             p1 == pos + 4 + length
         IN  IF length > Len(r) - pos - 4 THEN Panic
             ELSE IF ~IsUtf8(Slice(r, pos + 4, length)) THEN Err("StringConversionError")
             ELSE IF p1 + 4 > Len(r) THEN Panic
             ELSE LET first_byte == WordAt(r, p1, 4, big)
                      ix == CASE first_byte \in FormatChangingWords ->
                                     DAQmxDataIndex_from_reader(r, p1 + 4, big, TRUE)
                              [] first_byte \in DigitalLineWords ->
                                     DAQmxDataIndex_from_reader(r, p1 + 4, big, FALSE)
                              [] first_byte \notin NoIndexWords ->
                                     RawDataIndex_from_reader(r, p1 + 4, big)
                              [] OTHER -> [st |-> "ok", kind |-> "none", index |-> NoIndex, pos |-> p1 + 4]
                  IN  IF ix.st # "ok" THEN ix
                      ELSE IF ix.pos + 4 > Len(r) THEN Panic
                      ELSE LET num_of_properties == ToInt(WordAt(r, ix.pos, 4, big))
                               pr == Properties_from_reader(r, ix.pos + 4, big, num_of_properties)
                           IN  IF pr.st # "ok" THEN pr
                               ELSE [st |-> "ok",
                                     obj |-> [object_path |-> Slice(r, pos + 4, length),
                                              raw_data_index |->
                                                  IF ix.kind = "raw" THEN ix.index ELSE NoIndex,
                                              daqmx_data_index |->
                                                  IF ix.kind = "daqmx" THEN ix.index ELSE NoIndex,
                                              num_of_properties |-> num_of_properties],
                                     pos |-> pr.pos]

RECURSIVE Objects_from_reader(_, _, _, _, _)
Objects_from_reader(r, pos, big, n, objects) ==
    IF n = 0 THEN [st |-> "ok", objects |-> objects, pos |-> pos]
    ELSE LET o == MetadataObject_from_reader(r, pos, big)
         IN  IF o.st # "ok" THEN o
             ELSE Objects_from_reader(r, o.pos, big, n - 1, Append(objects, o.obj))

Metadata_from_reader(big, r) ==
    IF Len(r) < 4 THEN Panic
    ELSE Objects_from_reader(r, 4, big, ToInt(WordAt(r, 0, 4, big)), << >>)

\* ------------------------------------------------------------------------
\* Segment::new - the segment indexer
\* ------------------------------------------------------------------------
\* str::split("/")
RECURSIVE SplitAcc(_, _, _)
SplitAcc(s, cur, acc) ==
    IF s = << >> THEN Append(acc, cur)
    ELSE IF Head(s) = Slash THEN SplitAcc(Tail(s), << >>, Append(acc, cur))
    ELSE SplitAcc(Tail(s), Append(cur, Head(s)), acc)

Split(s) == SplitAcc(s, << >>, << >>)

rem_quotes(value) ==
    LET a == IF Len(value) > 0 /\ value[1] = Quote THEN Tail(value) ELSE value
    IN  IF Len(value) > 0 /\ value[Len(value)] = Quote /\ Len(a) > 0
        THEN SubSeq(a, 1, Len(a) - 1) ELSE a

NoChannel == [some |-> FALSE]
NoSegment == [some |-> FALSE]
NoPositions == [some |-> FALSE]

\* position of a key in an insertion-ordered map kept as a sequence (0: absent)
GroupIndex(groups, name) ==
    IF \E i \in 1..Len(groups) : groups[i].name = name
    THEN CHOOSE i \in 1..Len(groups) : groups[i].name = name ELSE 0

ChannelIndex(chans, path) ==
    IF \E i \in 1..Len(chans) : chans[i].path = path
    THEN CHOOSE i \in 1..Len(chans) : chans[i].path = path ELSE 0

\* Segment::get_channel
get_channel(seg, group_path, path) ==
    LET gi == GroupIndex(seg.groups, group_path)
    IN  IF gi = 0 THEN NoChannel
        ELSE IF ~seg.groups[gi].has THEN NoChannel
        ELSE LET ci == ChannelIndex(seg.groups[gi].chans, path)
             IN  IF ci = 0 THEN NoChannel ELSE seg.groups[gi].chans[ci]

\* IndexMap::insert of a channel into the map of group gi
InsertChannel(groups, gi, channel) ==
    LET g == groups[gi]
        ci == ChannelIndex(g.chans, channel.path)
    IN  [groups EXCEPT ![gi] =
            IF ~g.has THEN [name |-> g.name, has |-> TRUE, chans |-> <<channel>>]
            ELSE IF ci = 0 THEN [g EXCEPT !.chans = Append(g.chans, channel)]
            ELSE [g EXCEPT !.chans[ci] = channel]]

\* the body of the loop over the metadata objects, applied to object obj
IndexObject(st, obj, lead_in, previous_segment) ==
    LET paths == Split(obj.object_path)
        interleaved == HasBit(lead_in.table_of_contents, K_TOC_INTERLEAVED_DATA)
    IN  IF obj.object_path = <<Slash>> \/ Len(paths) < 3
        THEN [st EXCEPT !.objects = Append(st.objects, obj)]
        ELSE
        LET prev == IF previous_segment.some /\ ~obj.raw_data_index.some
                       /\ ~obj.daqmx_data_index.some
                    THEN get_channel(previous_segment, rem_quotes(paths[2]), rem_quotes(paths[3]))
                    ELSE NoChannel
            raw_data_index == IF prev.some THEN prev.raw_data_index ELSE obj.raw_data_index
            daqmx_data_index == IF prev.some THEN prev.daqmx_data_index ELSE obj.daqmx_data_index
            data_type == IF daqmx_data_index.some THEN daqmx_data_index.data_type
                         ELSE IF raw_data_index.some THEN raw_data_index.data_type
                         ELSE T_Void
            obj2 == [obj EXCEPT !.raw_data_index = raw_data_index,
                                !.daqmx_data_index = daqmx_data_index]
            group_name == rem_quotes(paths[2])
            groups1 == IF paths[2] # << >> /\ GroupIndex(st.groups, group_name) = 0
                       THEN Append(st.groups, [name |-> group_name, has |-> FALSE, chans |-> << >>])
                       ELSE st.groups
            is_string == raw_data_index.some /\ raw_data_index.data_type = T_String
                         /\ raw_data_index.number_of_bytes >= 0
            span == IF ~raw_data_index.some \/ interleaved THEN 0
                    ELSE IF is_string THEN raw_data_index.number_of_bytes
                    ELSE get_size(raw_data_index.data_type) * raw_data_index.array_dimension
                         * raw_data_index.number_of_values
            start_pos == IF is_string /\ ~interleaved
                         THEN st.data_pos + raw_data_index.number_of_values * 4
                         ELSE st.data_pos
            end_pos == IF raw_data_index.some /\ ~interleaved THEN st.data_pos + span ELSE 0
            channel == [some |-> TRUE,
                        full_path |-> obj.object_path,
                        group_path |-> group_name,
                        path |-> rem_quotes(paths[3]),
                        data_type |-> data_type,
                        raw_data_index |-> raw_data_index,
                        daqmx_data_index |-> daqmx_data_index,
                        chunk_positions |-> << <<start_pos, end_pos>> >>,
                        interleaved_offset |-> 0,
                        string_offset_pos |->
                            IF is_string /\ ~interleaved
                            THEN [some |-> TRUE, s |-> st.data_pos,
                                  e |-> st.data_pos + raw_data_index.number_of_values * 4]
                            ELSE NoPositions]
            gi == GroupIndex(groups1, group_name)
        IN  IF paths[3] # << >>
            THEN [objects |-> Append(st.objects, obj2),
                  groups |-> IF gi = 0 THEN groups1 ELSE InsertChannel(groups1, gi, channel),
                  data_pos |-> st.data_pos + span,
                  interleaved_total_size |-> st.interleaved_total_size + get_size(data_type),
                  chunk_size |-> st.chunk_size + span]
            ELSE [st EXCEPT !.objects = Append(st.objects, obj2),
                            !.groups = groups1,
                            !.interleaved_total_size = @ + get_size(data_type)]

RECURSIVE IndexObjects(_, _, _, _)
IndexObjects(st, objs, lead_in, previous_segment) ==
    IF objs = << >> THEN st
    ELSE IndexObjects(IndexObject(st, Head(objs), lead_in, previous_segment),
                      Tail(objs), lead_in, previous_segment)

\* the pass that sets interleaved_offset and the end of the first chunk;
\* flat is the list of <<group index, channel index>> in iteration order
RECURSIVE InterleavedPass(_, _, _, _, _)
InterleavedPass(groups, flat, chunk_size, interleaved_total_size, checked) ==
    IF flat = << >> THEN [st |-> "ok", groups |-> groups]
    ELSE LET gi == Head(flat)[1]
             ci == Head(flat)[2]
             channel == groups[gi].chans[ci]
             size == get_size(channel.data_type)
             interleaved_offset == interleaved_total_size - size
             first == channel.chunk_positions[1]
         IN  IF checked /\ chunk_size < interleaved_offset THEN Panic
             ELSE InterleavedPass(
                    [groups EXCEPT ![gi].chans[ci] =
                        [channel EXCEPT !.interleaved_offset = interleaved_offset,
                                        !.chunk_positions[1] =
                                            <<first[1], chunk_size - interleaved_offset
                                                        + interleaved_total_size>>]],
                    Tail(flat), chunk_size, interleaved_total_size + size, checked)

FlatChannels(groups) ==
    Flatten([gi \in 1..Len(groups) |->
                IF groups[gi].has THEN [ci \in 1..Len(groups[gi].chans) |-> <<gi, ci>>]
                ELSE << >>])

\* the chunk replication loop of one channel: Hang when it cannot end
RECURSIVE ReplicateLoop(_, _, _)
ReplicateLoop(positions, chunk_size, segment_end_pos) ==
    LET prev == positions[Len(positions)]
        new_start == prev[1] + chunk_size
        new_end == prev[2] + chunk_size
    IN  IF new_start > segment_end_pos THEN positions
        ELSE ReplicateLoop(Append(positions,
                 <<new_start, IF new_end > segment_end_pos THEN segment_end_pos ELSE new_end>>),
                 chunk_size, segment_end_pos)

Hang == [st |-> "hang"]

RECURSIVE ReplicatePass(_, _, _, _)
ReplicatePass(groups, flat, chunk_size, segment_end_pos) ==
    IF flat = << >> THEN [st |-> "ok", groups |-> groups]
    ELSE LET gi == Head(flat)[1]
             ci == Head(flat)[2]
             channel == groups[gi].chans[ci]
         IN  IF channel.data_type = T_DAQmxRawData
             THEN ReplicatePass(groups, Tail(flat), chunk_size, segment_end_pos)
             ELSE IF chunk_size = 0 /\ channel.chunk_positions[1][1] <= segment_end_pos
             THEN Hang
             ELSE ReplicatePass(
                    [groups EXCEPT ![gi].chans[ci].chunk_positions =
                        ReplicateLoop(channel.chunk_positions, chunk_size, segment_end_pos)],
                    Tail(flat), chunk_size, segment_end_pos)

Segment_new(r, lead_in, segment_start_pos, previous_segment, checked) ==
    LET segment_end_pos == segment_start_pos + lead_in.next_segment_offset
        big == HasBit(lead_in.table_of_contents, K_TOC_BIG_ENDIAN)
        \* the segment built once the chunk positions are replicated
        Replicated(st, rp) ==
            IF rp.st # "ok" THEN rp
            ELSE [st |-> "ok",
                  seg |-> [some |-> TRUE,
                           lead_in |-> lead_in,
                           metadata |-> st.objects,
                           start_pos |-> segment_start_pos,
                           end_pos |-> segment_end_pos,
                           groups |-> rp.groups,
                           chunk_size |-> st.chunk_size]]
        \* from the interleaved pass on
        Laid(st, il) ==
            IF il.st # "ok" THEN il
            ELSE Replicated(st, ReplicatePass(il.groups, FlatChannels(il.groups), st.chunk_size,
                                              segment_end_pos))
        \* from the end of the loop over the metadata objects on
        Indexed(st) ==
            Laid(st, IF HasBit(lead_in.table_of_contents, K_TOC_INTERLEAVED_DATA)
                     THEN InterleavedPass(st.groups, FlatChannels(st.groups), st.chunk_size,
                                          st.interleaved_total_size, checked)
                     ELSE [st |-> "ok", groups |-> st.groups])
        \* from the parsed metadata on
        Parsed(md) ==
            IF md.st # "ok" THEN md
            ELSE Indexed(IndexObjects([objects |-> << >>, groups |-> << >>,
                                       data_pos |-> lead_in.raw_data_offset,
                                       interleaved_total_size |-> 0, chunk_size |-> 0],
                                      md.objects, lead_in, previous_segment))
    IN  Parsed(Metadata_from_reader(big, r))

endianess(seg) == HasBit(seg.lead_in.table_of_contents, K_TOC_BIG_ENDIAN)
has_interleaved_data(seg) == HasBit(seg.lead_in.table_of_contents, K_TOC_INTERLEAVED_DATA)
has_new_obj_list(seg) == HasBit(seg.lead_in.table_of_contents, K_TOC_NEW_OBJ_LIST)

\* ------------------------------------------------------------------------
\* TDMSFile::channels and TDMSFile::load_segments (on the indexed segments)
\* ------------------------------------------------------------------------
\* channels(group): channel paths in insertion order, each with the index (in
\* the file's segment list) of the segment whose Channel entry the map holds
\* a map that keeps the entry of the first segment that has the channel
insert_if_absent(map, chans, k) ==
    map \o SelectSeq([i \in 1..Len(chans) |-> [path |-> chans[i].path, seg |-> k]],
                     LAMBDA e : ChannelIndex(map, e.path) = 0)

RECURSIVE InsertAll(_, _, _)
InsertAll(map, chans, k) ==
    IF chans = << >> THEN map
    ELSE LET ci == ChannelIndex(map, Head(chans).path)
             e == [path |-> Head(chans).path, seg |-> k]
         IN  InsertAll(IF ci = 0 THEN Append(map, e) ELSE [map EXCEPT ![ci] = e],
                       Tail(chans), k)

RECURSIVE channels_from(_, _, _, _)
channels_from(segments, group_path, k, map) ==
    IF k > Len(segments) THEN map
    ELSE LET gi == GroupIndex(segments[k].groups, group_path)
         IN  IF gi = 0 \/ ~segments[k].groups[gi].has
             THEN channels_from(segments, group_path, k + 1, map)
             ELSE channels_from(segments, group_path, k + 1,
                                InsertAll(map, segments[k].groups[gi].chans, k))

channels(segments, group_path) == channels_from(segments, group_path, 1, << >>)

\* load_segments: the indices of the segments handed to a channel iterator
RECURSIVE load_segments_from(_, _, _, _, _, _)
load_segments_from(segments, group_path, path, k, vec, channel_in_segment) ==
    IF k > Len(segments) THEN vec
    ELSE IF get_channel(segments[k], group_path, path).some
         THEN load_segments_from(segments, group_path, path, k + 1, Append(vec, k), TRUE)
         ELSE IF ~has_new_obj_list(segments[k]) /\ channel_in_segment
              THEN load_segments_from(segments, group_path, path, k + 1, Append(vec, k), TRUE)
              ELSE load_segments_from(segments, group_path, path, k + 1, vec, FALSE)

load_segments(segments, group_path, path) ==
    load_segments_from(segments, group_path, path, 1, << >>, FALSE)

\* ------------------------------------------------------------------------
\* State
\* ------------------------------------------------------------------------
VARIABLES
    desc,             \* the description the file was written from (never read by the reader)
    bytes,            \* the file
    overflow_checks,  \* TRUE: arithmetic overflow panics (debug build); FALSE: it wraps
    open,             \* TDMSFile::from_path: its loop state and its result
    iters,            \* the channel iterators
    readers           \* the position of every buffered reader

vars == <<desc, bytes, overflow_checks, open, iters, readers>>

IterIds == {1, 2}

NoIter == [some |-> FALSE]

\* ------------------------------------------------------------------------
\* ChannelDataIter
\* An iterator state s is [it |-> the fields of the struct, pos |-> the
\* position of its reader]
\* ------------------------------------------------------------------------
\* self.segments.get(index), index counted from 0
SegAt(it, index) == open.segments[it.segments[index + 1]]

\* the Channel the iterator holds a reference to
ChannelOf(it) == get_channel(open.segments[it.chan_seg], it.group_path, it.path)

\* read_exact of n bytes: fails at end of file, leaving the reader there
CanRead(pos, n) == pos + n <= Len(bytes)

\* the first chunk range that ends after stream_pos (0: none)
FirstAfter(positions, stream_pos) ==
    IF \E i \in 1..Len(positions) : stream_pos < positions[i][2]
    THEN CHOOSE i \in 1..Len(positions) :
             /\ stream_pos < positions[i][2]
             /\ \A j \in 1..(i - 1) : stream_pos >= positions[j][2]
    ELSE 0

set_string_offsets(s) ==
    LET sop == ChannelOf(s.it).string_offset_pos
        s0 == [s EXCEPT !.it.string_offsets = << >>, !.it.string_offset_index = 0]
    IN  IF ~sop.some THEN [res |-> "ok", s |-> s0]
        ELSE LET n == IF sop.e > sop.s THEN (sop.e - sop.s + 3) \div 4 ELSE 0
                 big == endianess(SegAt(s.it, 0))
                 fit == IF Len(bytes) < sop.s THEN 0
                        ELSE IF (Len(bytes) - sop.s) \div 4 < n THEN (Len(bytes) - sop.s) \div 4
                        ELSE n
                 read == [k \in 1..fit |-> ToInt(WordAt(bytes, sop.s + 4 * (k - 1), 4, big))]
             IN  IF fit < n
                 THEN [res |-> "ReadError",
                       s |-> [s0 EXCEPT !.it.string_offsets = read, !.pos = Len(bytes)]]
                 ELSE [res |-> "ok",
                       s |-> [s0 EXCEPT !.it.string_offsets = read, !.pos = sop.s + 4 * n]]

\* the look-up of the iterated channel in the segment with list index `index`,
\* shared by current_positions and advance_reader_to_next
SwapChannel(s, index) ==
    LET seg == SegAt(s.it, index)
        gi == GroupIndex(seg.groups, s.it.group_path)
    IN  IF gi = 0 THEN [res |-> "GroupDoesNotExist", s |-> s]
        ELSE IF ~seg.groups[gi].has THEN [res |-> "ChannelDoesNotExist", s |-> s]
        ELSE IF ChannelIndex(seg.groups[gi].chans, s.it.path) = 0
             THEN [res |-> "ChannelDoesNotExist", s |-> s]
        ELSE set_string_offsets([s EXCEPT !.it.chan_seg = s.it.segments[index + 1]])

current_positions(s, stream_pos) ==
    IF stream_pos < s.it.current_pos[2] THEN [res |-> "ok", s |-> s]
    ELSE
    LET here == FirstAfter(ChannelOf(s.it).chunk_positions, stream_pos)
        \* the search in the channel of the segment moved to
        Swapped(sw) ==
            IF sw.res # "ok" THEN sw
            ELSE LET there == FirstAfter(ChannelOf(sw.s.it).chunk_positions, stream_pos)
                 IN  IF there # 0
                     THEN [res |-> "ok",
                           s |-> [sw.s EXCEPT !.it.current_pos =
                                     ChannelOf(sw.s.it).chunk_positions[there]]]
                     ELSE [res |-> "EndOfSegments", s |-> sw.s]
    IN  IF here # 0
        THEN [res |-> "ok",
              s |-> [s EXCEPT !.it.current_pos = ChannelOf(s.it).chunk_positions[here]]]
        ELSE
        LET index == s.it.current_segment_index
            s1 == [s EXCEPT !.it.current_segment_index = 0]
        IN  IF index >= Len(s.it.segments) THEN [res |-> "EndOfSegments", s |-> s1]
            ELSE
            LET moved == stream_pos # SegAt(s.it, index).start_pos
                s2 == IF moved THEN [s1 EXCEPT !.pos = SegAt(s.it, index).end_pos] ELSE s1
            IN  IF moved /\ index + 1 >= Len(s.it.segments)
                THEN [res |-> "EndOfSegments", s |-> s2]
                ELSE Swapped(SwapChannel(
                         IF moved THEN [s2 EXCEPT !.it.current_segment_index = index + 1]
                         ELSE s2,
                         IF moved THEN index + 1 ELSE index))

\* advance_reader_to_next; seen holds the states this call chain started a
\* pass from: meeting one again, the recursion never returns ("diverge")
RECURSIVE advance_reader_to_next(_, _)
advance_reader_to_next(s, seen) ==
    LET \* after the move to the next segment
        Swapped(sw) ==
            IF sw.res # "ok" THEN sw ELSE advance_reader_to_next(sw.s, seen \cup {s})
        \* s1: the iterator once the reader is at a position of the channel
        Placed(s1, stream_pos, start_pos, end_pos, index, current_segment) ==
            IF stream_pos >= current_segment.end_pos
            THEN IF index + 1 >= Len(s1.it.segments)
                 THEN [res |-> "EndOfSegments",
                       s |-> [s1 EXCEPT !.pos = current_segment.end_pos]]
                 ELSE Swapped(SwapChannel(
                          [s1 EXCEPT !.pos = current_segment.end_pos,
                                     !.it.current_segment_index = index + 1],
                          index + 1))
            ELSE IF has_interleaved_data(current_segment)
            THEN advance_reader_to_next(
                     [s1 EXCEPT !.pos = s1.pos + ChannelOf(s1.it).interleaved_offset],
                     seen \cup {s})
            ELSE IF stream_pos >= start_pos /\ stream_pos < end_pos
            THEN [res |-> "ok", s |-> s1, big |-> endianess(current_segment)]
            ELSE advance_reader_to_next(s1, seen \cup {s})
        \* from the chunk positions found on
        Found(cp, stream_pos0) ==
            IF cp.res # "ok" THEN cp
            ELSE
            LET start_pos == cp.s.it.current_pos[1]
                end_pos == cp.s.it.current_pos[2]
                index == cp.s.it.current_segment_index
            IN  IF index >= Len(cp.s.it.segments) THEN [res |-> "EndOfSegments", s |-> cp.s]
                ELSE
                LET current_segment == SegAt(cp.s.it, index)
                    back == stream_pos0 < current_segment.start_pos
                                              + current_segment.lead_in.raw_data_offset
                            \/ stream_pos0 < start_pos
                IN  Placed(IF back THEN [cp.s EXCEPT !.pos = start_pos] ELSE cp.s,
                           IF back THEN start_pos ELSE stream_pos0,
                           start_pos, end_pos, index, current_segment)
    IN  IF s \in seen THEN [res |-> "diverge", s |-> s]
        ELSE Found(current_positions(s, s.pos), s.pos)

\* ChannelDataIter::new with the segments of load_segments, the channel the
\* caller passed (held by segment passed_seg) and a fresh reader at offset 0
ChannelDataIter_new(segments, group_path, path, passed_seg, kind, reader) ==
    IF Len(segments) <= 0 THEN [res |-> "General"]
    ELSE
    LET chan_seg == IF get_channel(open.segments[segments[1]], group_path, path).some
                    THEN segments[1] ELSE passed_seg
        channel == get_channel(open.segments[chan_seg], group_path, path)
        it == [segments |-> segments,
               group_path |-> group_path,
               path |-> path,
               kind |-> kind,
               reader |-> reader,
               chan_seg |-> chan_seg,
               current_pos |-> channel.chunk_positions[1],
               current_segment_index |-> 0,
               string_offsets |-> << >>,
               string_offset_index |-> 0,
               string_previous_offset |-> 0]
        so == set_string_offsets([it |-> it, pos |-> 0])
    IN  IF so.res # "ok" THEN so
        ELSE [res |-> "ok", s |-> [so.s EXCEPT !.pos = open.segments[segments[1]].start_pos]]

\* Iterator::next for the numeric target types: w is the width of the buffer
next_numeric(s, w) ==
    LET Advanced(a) ==
            IF a.res = "diverge" THEN [res |-> "diverge", s |-> a.s]
            ELSE IF a.res # "ok" THEN [res |-> "none", s |-> a.s, why |-> a.res]
            ELSE IF ~CanRead(a.s.pos, w)
            THEN [res |-> "none", s |-> [a.s EXCEPT !.pos = Len(bytes)], why |-> "read_exact"]
            ELSE [res |-> "some",
                  s |-> [a.s EXCEPT !.pos = a.s.pos + w],
                  item |-> [off |-> a.s.pos,
                            val |-> FromBytes(Slice(bytes, a.s.pos, w), a.big)]]
    IN  Advanced(advance_reader_to_next(s, {}))

\* Iterator::next for bool: no advance step, one byte from wherever the reader is
next_bool(s) ==
    IF ~CanRead(s.pos, 1)
    THEN [res |-> "none", s |-> [s EXCEPT !.pos = Len(bytes)], why |-> "read_exact"]
    ELSE [res |-> "some",
          s |-> [s EXCEPT !.pos = s.pos + 1],
          item |-> [off |-> s.pos, val |-> <<IF bytes[s.pos + 1] # 0 THEN 1 ELSE 0>>]]

\* Iterator::next for String: the result of the advance step is not looked at
next_string(s) ==
    LET \* s1: the iterator once the offset is taken; size: the bytes to read
        Sized(s1, size) ==
            IF ~CanRead(s1.pos, size)
            THEN [res |-> "none", s |-> [s1 EXCEPT !.pos = Len(bytes)], why |-> "read_exact"]
            ELSE IF ~IsUtf8(Slice(bytes, s1.pos, size))
            THEN [res |-> "none", s |-> [s1 EXCEPT !.pos = s1.pos + size], why |-> "from_utf8"]
            ELSE [res |-> "some",
                  s |-> [s1 EXCEPT !.pos = s1.pos + size],
                  item |-> [off |-> s1.pos, val |-> Slice(bytes, s1.pos, size)]]
        Advanced(a) ==
            LET index == a.s.it.string_offset_index
            IN  IF a.res = "diverge" THEN [res |-> "diverge", s |-> a.s]
                ELSE IF index >= Len(a.s.it.string_offsets)
                THEN [res |-> "none", s |-> a.s, why |-> "string_offsets"]
                ELSE
                LET o == a.s.it.string_offsets[index + 1]
                    underflow == o < a.s.it.string_previous_offset
                IN  IF underflow /\ overflow_checks THEN [res |-> "panic", s |-> a.s]
                    ELSE Sized([a.s EXCEPT !.it.string_previous_offset = o,
                                           !.it.string_offset_index = index + 1],
                               \* a wrapped u32 difference is longer than any file of the model
                               IF underflow THEN Len(bytes) + 1
                               ELSE o - a.s.it.string_previous_offset)
    IN  Advanced(advance_reader_to_next(s, {}))

\* the next() of the iterator the factory for data type `kind` returns
next(s) ==
    CASE s.it.kind = T_String -> next_string(s)
      [] s.it.kind = T_Boolean -> next_bool(s)
      [] OTHER -> next_numeric(s, get_size(s.it.kind))

\* TDMSFile::groups
RECURSIVE groups_from(_, _, _)
groups_from(segments, k, set) ==
    IF k > Len(segments) THEN set
    ELSE LET names == [i \in 1..Len(segments[k].groups) |-> segments[k].groups[i].name]
             new == SelectSeq(names, LAMBDA n : \A j \in 1..Len(set) : set[j] # n)
         IN  groups_from(segments, k + 1, set \o new)

groups(segments) == groups_from(segments, 1, << >>)

\* ------------------------------------------------------------------------
\* The files the model reads
\* ------------------------------------------------------------------------
\* group g with the channels a and b
GroupG == <<103>>
ChanA == <<97>>
ChanB == <<98>>
PathA == ChanPath(GroupG, ChanA)
PathB == ChanPath(GroupG, ChanB)

Foo == <<102, 111, 111>>
BarBang == <<98, 97, 114, 33>>
Hello == <<104, 101, 108, 108, 111>>
Strings == <<Foo, BarBang, Hello>>

StdObj(path, dtype, nvals) ==
    [path |-> path, idx |-> "std", dtype |-> dtype, nvals |-> nvals,
     strs |-> IF dtype = T_String THEN SubSeq(Strings, 1, nvals) ELSE << >>]

SameObj(path) == [path |-> path, idx |-> "same", dtype |-> T_Void, nvals |-> 0, strs |-> << >>]

\* object list and layout of a segment
FirstLayouts ==
    { [inter |-> FALSE, objs |-> <<StdObj(PathA, T_I32, 1)>>],
      [inter |-> FALSE, objs |-> <<StdObj(PathA, T_I32, MaxVals)>>],
      [inter |-> FALSE, objs |-> <<StdObj(PathA, T_I32, MaxVals), StdObj(PathB, T_I16, MaxVals)>>],
      [inter |-> TRUE, objs |-> <<StdObj(PathA, T_I32, MaxVals), StdObj(PathB, T_I16, MaxVals)>>],
      [inter |-> FALSE, objs |-> <<StdObj(PathA, T_Boolean, MaxVals)>>],
      [inter |-> FALSE, objs |-> <<StdObj(PathA, T_String, MaxVals)>>],
      [inter |-> FALSE, objs |-> <<StdObj(PathA, T_DoubleFloat, 4), StdObj(PathB, T_I16, 1)>>] }

LaterLayouts ==
    FirstLayouts \cup
    { [inter |-> FALSE, objs |-> <<SameObj(PathA)>>],
      [inter |-> FALSE, objs |-> <<SameObj(PathA), SameObj(PathB)>>],
      [inter |-> FALSE, objs |-> <<StdObj(PathB, T_I16, 1)>>] }

ChunkCounts == {0, 1, MaxChunks}

Paths(objs) == [i \in 1..Len(objs) |-> objs[i].path]

SegDesc(layout, nchunks, big, newobj) ==
    [inter |-> layout.inter, big |-> big, newobj |-> newobj, meta |-> TRUE,
     nchunks |-> nchunks, objs |-> layout.objs]

OneSegment ==
    { <<SegDesc(l, n, big, TRUE)>> : l \in FirstLayouts, n \in ChunkCounts, big \in BOOLEAN }

TwoSegments ==
    { <<SegDesc(l1, n1, big, TRUE),
        SegDesc(l2, n2, big, Paths(l2.objs) # Paths(l1.objs))>> :
          l1 \in FirstLayouts, n1 \in ChunkCounts, l2 \in LaterLayouts, n2 \in ChunkCounts,
          big \in BOOLEAN }

\* a description is of a valid file when every object that says "same as
\* before" has an index in an earlier segment
ValidDesc(d) ==
    \A k \in 1..Len(d) : \A i \in 1..Len(d[k].objs) :
        d[k].objs[i].idx = "same" => WLastStd(d, k, d[k].objs[i].path) # None

\* scenario S5: one interleaved segment, two i32 channels of 4 samples
S5File ==
    <<SegDesc([inter |-> TRUE, objs |-> <<StdObj(PathA, T_I32, 4), StdObj(PathB, T_I32, 4)>>],
              1, FALSE, TRUE)>>

\* scenario S6: one segment, one string channel holding "foo", "bar!", "hello"
S6File == <<SegDesc([inter |-> FALSE, objs |-> <<StdObj(PathA, T_String, 3)>>], 1, FALSE, TRUE)>>

ValidFiles == {d \in OneSegment \cup TwoSegments : ValidDesc(d)} \cup {S5File, S6File}

\* ------------------------------------------------------------------------
\* Init and the actions
\* ------------------------------------------------------------------------
InitWith(files) ==
    /\ desc \in files
    /\ bytes = WFileBytes(desc)
    /\ overflow_checks \in BOOLEAN
    /\ open = [st |-> "indexing", err |-> "", offset |-> 0, segments |-> << >>,
               lead_ins |-> << >>]
    /\ iters = [i \in IterIds |-> NoIter]
    /\ readers = [i \in IterIds |-> 0]

Init == InitWith(ValidFiles)

\* the next lead-in sought where the metadata begins: the lead-in is not counted
next_offset_from_lead_in(metadata_start, lead_in) ==
    metadata_start - LeadInSize + lead_in.next_segment_offset

\* where from_path looks for the next lead-in once a segment is indexed
next_offset(metadata_start, lead_in) == metadata_start + lead_in.next_segment_offset

\* one pass of the loop of TDMSFile::from_path, with the test that ends it
OpenStep ==
    /\ open.st = "indexing"
    /\ LET file_len == Len(bytes)
           offset == open.offset
           metadata_start == offset + LeadInSize
           reads == Append(open.lead_ins, offset)
           \* from the parsed lead-in on
           Led(lead_in, buffer0) ==
               IF lead_in.st # "ok"
               THEN open' = [open EXCEPT !.st = lead_in.st, !.err = ErrOf(lead_in),
                                         !.lead_ins = reads]
               ELSE \E segment \in
                        {Segment_new(IF HasBit(lead_in.table_of_contents, K_TOC_META_DATA)
                                     THEN Slice(bytes, metadata_start, lead_in.raw_data_offset)
                                     ELSE buffer0,
                                     lead_in, metadata_start,
                                     IF open.segments = << >> THEN NoSegment
                                     ELSE open.segments[Len(open.segments)],
                                     overflow_checks)} :
                        IF segment.st # "ok"
                        THEN open' = [open EXCEPT !.st = segment.st, !.err = ErrOf(segment),
                                                  !.lead_ins = reads]
                        ELSE open' = [open EXCEPT
                                         !.segments = Append(open.segments, segment.seg),
                                         !.offset = next_offset(metadata_start, lead_in),
                                         !.lead_ins = reads]
       IN  IF ~(offset < file_len) THEN open' = [open EXCEPT !.st = "ok"]
           ELSE Led(LeadIn_from_bytes(Slice(bytes, offset, LeadInSize)),
                    Slice(bytes, offset, LeadInSize))
    /\ UNCHANGED <<desc, bytes, overflow_checks, iters, readers>>

\* the channels the directory of the open file lists: <<group, path, segment>>
Listed ==
    LET gs == groups(open.segments)
    IN  UNION { { <<gs[g], channels(open.segments, gs[g])[c].path,
                    channels(open.segments, gs[g])[c].seg>> :
                  c \in 1..Len(channels(open.segments, gs[g])) } : g \in 1..Len(gs) }

\* the factories have an iterator for these data types
IterableTypes ==
    {T_I8, T_I16, T_I32, T_I64, T_DoubleFloat, T_Boolean, T_String, 524300, 1048589}

\* one reader of the open file lent to every iterator
shared_reader(i) == 1

\* the reader a factory hands to iterator i: a BufReader on a file it opens itself
factory_reader(i) == i

\* the record kept for iterator i: its fields, what it has returned so far (out),
\* the calls made, the Nones among them, the length of out at the first None,
\* the last result and what produced the last None
IterRec(st, it, out, calls, nones, first_none, last, why) ==
    [some |-> TRUE, st |-> st, it |-> it, out |-> out, calls |-> calls, nones |-> nones,
     first_none |-> first_none, last |-> last, why |-> why]

\* channel_data_<T>(channel) for the listed channel c = <<group, path, segment>>:
\* the record of the new iterator and where its reader stands
channel_data(c, reader) ==
    LET channel == get_channel(open.segments[c[3]], c[1], c[2])
        vec == load_segments(open.segments, c[1], c[2])
        Made(new) ==
            IF new.res = "ok"
            THEN [rec |-> IterRec("live", new.s.it, << >>, 0, 0, -1, "new", ""),
                  pos |-> new.s.pos]
            ELSE [rec |-> IterRec(new.res, NoIter, << >>, 0, 0, -1, "new", ""), pos |-> 0]
    IN  Made(ChannelDataIter_new(vec, c[1], c[2], c[3], channel.data_type, reader))

\* the caller takes the factory of the channel's data type
CreateIter(i) ==
    /\ open.st = "ok"
    /\ ~iters[i].some
    /\ \E c \in Listed :
          /\ get_channel(open.segments[c[3]], c[1], c[2]).data_type \in IterableTypes
          /\ \E new \in {channel_data(c, factory_reader(i))} :
                /\ iters' = [iters EXCEPT ![i] = new.rec]
                /\ IF new.rec.st = "live"
                   THEN readers' = [readers EXCEPT ![new.rec.it.reader] = new.pos]
                   ELSE UNCHANGED readers
    /\ UNCHANGED <<desc, bytes, overflow_checks, open>>

\* a call of next() on the iterator of record rec whose reader stands at pos
AfterNext(rec, pos) ==
    LET Returned(r) ==
            [rec |-> IterRec(IF r.res \in {"some", "none"} THEN "live" ELSE r.res,
                             r.s.it,
                             IF r.res = "some" THEN Append(rec.out, r.item) ELSE rec.out,
                             rec.calls + 1,
                             IF r.res = "none" THEN rec.nones + 1 ELSE rec.nones,
                             IF r.res = "none" /\ rec.nones = 0 THEN Len(rec.out)
                             ELSE rec.first_none,
                             r.res,
                             IF r.res = "none" THEN r.why ELSE ""),
             pos |-> r.s.pos]
    IN  Returned(next([it |-> rec.it, pos |-> pos]))

\* one call of next() on iterator i
NextCall(i) ==
    /\ iters[i].some
    /\ iters[i].st = "live"
    /\ iters[i].calls < MaxCalls
    /\ \E a \in {AfterNext(iters[i], readers[iters[i].it.reader])} :
          /\ iters' = [iters EXCEPT ![i] = a.rec]
          /\ readers' = [readers EXCEPT ![iters[i].it.reader] = a.pos]
    /\ UNCHANGED <<desc, bytes, overflow_checks, open>>

Next == OpenStep \/ CreateIter(1) \/ NextCall(1)

Spec == Init /\ [][Next]_vars

\* two iterators made from one open file, their calls interleaved at will
TwoIterFiles ==
    {d \in ValidFiles : ~d[1].big /\ (Len(d) = 2 => d[1].nchunks = 1 /\ d[2].nchunks = 1)}

InitTwo == InitWith(TwoIterFiles)

NextTwo == OpenStep \/ CreateIter(1) \/ NextCall(1) \/ CreateIter(2) \/ NextCall(2)

SpecTwo == InitTwo /\ [][NextTwo]_vars

\* ------------------------------------------------------------------------
\* Files with more in their metadata: a second group, group objects, channel
\* objects without an index, DAQmx channels, three segments, any type code
\* ------------------------------------------------------------------------
GroupH == <<104>>
PathHA == ChanPath(GroupH, ChanA)

\* /'g' for group name g
GroupPath(g) == <<Slash, Quote>> \o g \o <<Quote>>

\* an object with the index word 0xFFFFFFFF: no raw data in this segment
NoDataObj(path) == [path |-> path, idx |-> "none", dtype |-> T_Void, nvals |-> 0, strs |-> << >>]

DaqmxObj(path, nvals) ==
    [path |-> path, idx |-> "daqmx", dtype |-> T_DAQmxRawData, nvals |-> nvals, strs |-> << >>]

\* a channel with a DAQmx digital line scaler index
DaqmxLinesObj(path, nvals) ==
    [path |-> path, idx |-> "lines", dtype |-> T_DAQmxRawData, nvals |-> nvals, strs |-> << >>]

OddLayouts ==
    { <<StdObj(PathA, T_I32, 1)>>,
      <<StdObj(PathB, T_I16, 1)>>,
      <<SameObj(PathA)>>,
      <<SameObj(PathA), StdObj(PathB, T_I16, 1)>>,
      <<NoDataObj(GroupPath(GroupH)), StdObj(PathA, T_I32, 1)>>,
      <<StdObj(PathHA, T_I32, 1)>>,
      <<NoDataObj(PathA), StdObj(PathB, T_I16, 1)>>,
      <<DaqmxObj(PathA, 1)>>,
      <<DaqmxObj(PathA, 1), StdObj(PathB, T_I16, 1)>>,
      <<DaqmxLinesObj(PathA, 1), StdObj(PathB, T_I16, 1)>> }

\* the layouts of the files of three segments
GapLayouts ==
    { <<StdObj(PathA, T_I32, 1)>>,
      <<StdObj(PathB, T_I16, 1)>>,
      <<SameObj(PathA)>>,
      <<SameObj(PathA), StdObj(PathB, T_I16, 1)>> }

OddSegment(objs) == SegDesc([inter |-> FALSE, objs |-> objs], 1, FALSE, TRUE)

\* the 32-bit type codes tried as the data type of a raw data index
TriedCodes ==
    (-2..35) \cup {67, 68, 69, 78, 79, 80, 524300, 1048589, 134217740, 268435469}

\* one segment without raw data whose only channel has the type code `code`
TypedFile(code) == <<SegDesc([inter |-> FALSE, objs |-> <<StdObj(PathA, code, 1)>>], 0, FALSE, TRUE)>>

\* a segment without metadata (kTocMetaData not set, raw_data_offset 0):
\* one more chunk of channel a as the segment before laid it out
BareSegment ==
    [inter |-> FALSE, big |-> FALSE, newobj |-> FALSE, meta |-> FALSE, nchunks |-> 1,
     objs |-> <<SameObj(PathA)>>]

OddFiles ==
    { <<OddSegment(l)>> : l \in OddLayouts }
    \cup { <<OddSegment(<<StdObj(PathA, T_I32, 1)>>), BareSegment>>,
           <<OddSegment(<<StdObj(PathA, T_I32, 1)>>), BareSegment,
             OddSegment(<<StdObj(PathB, T_I16, 1)>>)>>,
           <<BareSegment>> }
    \cup { <<OddSegment(l1), OddSegment(l2)>> : l1 \in OddLayouts, l2 \in OddLayouts }
    \cup { <<OddSegment(l1), OddSegment(l2), OddSegment(l3)>> :
               l1 \in GapLayouts, l2 \in GapLayouts, l3 \in GapLayouts }
    \cup { TypedFile(code) : code \in TriedCodes }

InitOdd == InitWith(OddFiles)

\* channel_data_<T>(channel) of the factory for data type kind, whatever the
\* data type of the listed channel c is
channel_data_as(c, kind, reader) ==
    LET vec == load_segments(open.segments, c[1], c[2])
        Made(new) ==
            IF new.res = "ok"
            THEN [rec |-> IterRec("live", new.s.it, << >>, 0, 0, -1, "new", ""),
                  pos |-> new.s.pos]
            ELSE [rec |-> IterRec(new.res, NoIter, << >>, 0, 0, -1, "new", ""), pos |-> 0]
    IN  Made(ChannelDataIter_new(vec, c[1], c[2], c[3], kind, reader))

\* the caller asks any of the factories for an iterator over a DAQmx channel
CreateIterDAQmx(i) ==
    /\ open.st = "ok"
    /\ ~iters[i].some
    /\ \E c \in Listed : \E kind \in IterableTypes :
          /\ get_channel(open.segments[c[3]], c[1], c[2]).data_type = T_DAQmxRawData
          /\ \E new \in {channel_data_as(c, kind, factory_reader(i))} :
                /\ iters' = [iters EXCEPT ![i] = new.rec]
                /\ IF new.rec.st = "live"
                   THEN readers' = [readers EXCEPT ![new.rec.it.reader] = new.pos]
                   ELSE UNCHANGED readers
    /\ UNCHANGED <<desc, bytes, overflow_checks, open>>

NextOdd == OpenStep \/ CreateIter(1) \/ CreateIterDAQmx(1) \/ NextCall(1)

SpecOdd == InitOdd /\ [][NextOdd]_vars

\* ------------------------------------------------------------------------
\* Damaged files: a valid file cut short, with a byte of a tag changed, or with
\* a raw data extent that is not that of its chunks
\* ------------------------------------------------------------------------
DamageBase ==
    { <<SegDesc([inter |-> FALSE, objs |-> <<StdObj(PathA, T_I32, 1)>>], 1, FALSE, TRUE)>>,
      <<SegDesc([inter |-> FALSE, objs |-> <<StdObj(PathA, T_I32, MaxVals)>>], 1, FALSE, TRUE),
        SegDesc([inter |-> FALSE, objs |-> <<SameObj(PathA)>>], 1, FALSE, FALSE)>>,
      <<SegDesc([inter |-> FALSE,
                 objs |-> <<StdObj(PathA, T_I32, 1), StdObj(PathB, T_I16, MaxVals)>>],
                MaxChunks, TRUE, TRUE)>> }

\* a file cut short after any number of bytes, or with one of the four
\* bytes of the tag of a segment changed, or a file of one segment whose
\* next_segment_offset is n bytes more than the writer's (n zero bytes
\* follow the raw data) or -n bytes less (the file is as long as it was)
Damaged(descs) ==
    { SubSeq(WFileBytes(descs), 1, n) : n \in 0..Len(WFileBytes(descs)) }
    \cup { [WFileBytes(descs) EXCEPT ![WSegStart(descs, k) + j + 1] = (@ + 1) % 256] :
               k \in 1..Len(descs), j \in 0..3 }
    \cup { SubSeq(WFileBytes(descs), 1, 12)
               \o Enc(WSegLen(descs, 1) - LeadInSize + n, 8, descs[1].big)
               \o SubSeq(WFileBytes(descs), 21, Len(WFileBytes(descs)))
               \o [i \in 1..n |-> 0] :
               n \in IF Len(descs) = 1 THEN {-6, -2, 2} ELSE {} }

InitDamaged ==
    /\ desc \in DamageBase
    /\ bytes \in Damaged(desc)
    /\ overflow_checks \in BOOLEAN
    /\ open = [st |-> "indexing", err |-> "", offset |-> 0, segments |-> << >>,
               lead_ins |-> << >>]
    /\ iters = [i \in IterIds |-> NoIter]
    /\ readers = [i \in IterIds |-> 0]

SpecDamaged == InitDamaged /\ [][Next]_vars

\* ------------------------------------------------------------------------
\* What the file holds: the samples of a channel, as the writer laid them out
\* ------------------------------------------------------------------------
\* position of the channel with full path p among the channels of a segment
EffIndex(eff, p) ==
    IF \E i \in 1..Len(eff) : eff[i].path = p
    THEN CHOOSE i \in 1..Len(eff) : eff[i].path = p
    ELSE 0

\* the decoded value of the sample the writer put at offset off
SampleVal(dtype, off) ==
    IF dtype = T_Boolean THEN <<IF off % 256 # 0 THEN 1 ELSE 0>>
    ELSE EncLE(off, get_size(dtype))

\* the samples of channel i in the chunk that starts at offset at
TrueChunk(eff, i, inter, at) ==
    LET o == eff[i]
        w == get_size(o.dtype)
    IN  IF inter
        THEN [v \in 1..o.nvals |->
                 LET off == at + (v - 1) * WRowSize(eff) + WRowOff(eff, i)
                 IN  [off |-> off, val |-> SampleVal(o.dtype, off)]]
        ELSE IF o.dtype = T_String
        THEN [v \in 1..o.nvals |->
                 [off |-> at + WChanOff(eff, i) + 4 * o.nvals + WStrCum(o.strs, v - 1),
                  val |-> o.strs[v]]]
        ELSE [v \in 1..o.nvals |->
                 LET off == at + WChanOff(eff, i) + (v - 1) * w
                 IN  [off |-> off, val |-> SampleVal(o.dtype, off)]]

\* the samples of the channel with full path p in segment k, chunk after chunk
TrueSegSamples(descs, k, p) ==
    LET eff == WEff(descs, k)
        i == EffIndex(eff, p)
        cs == WChunkSize(eff, descs[k].inter)
    IN  IF i = 0 THEN << >>
        ELSE Flatten([c \in 1..descs[k].nchunks |->
                 TrueChunk(eff, i, descs[k].inter, WDataStart(descs, k) + (c - 1) * cs)])

\* the samples of the channel in file order
TrueSamples(descs, p) == Flatten([k \in 1..Len(descs) |-> TrueSegSamples(descs, k, p)])

\* number_of_values of the channel's descriptor for every chunk of every
\* segment that holds the channel
TrueCount(descs, p) ==
    SumSeq([k \in 1..Len(descs) |->
        LET eff == WEff(descs, k)
            i == EffIndex(eff, p)
        IN  IF i = 0 THEN 0 ELSE descs[k].nchunks * eff[i].nvals])

\* the full path of the channel iterator record r reads
FullPath(r) == ChanPath(r.it.group_path, r.it.path)

\* the segments of the file that hold the channel
HoldingSegs(descs, p) == {k \in 1..Len(descs) : EffIndex(WEff(descs, k), p) # 0}

IsPrefix(a, b) == Len(a) <= Len(b) /\ a = SubSeq(b, 1, Len(a))

\* what iterator record r returned before its first None
BeforeNone(r) == IF r.first_none = -1 THEN r.out ELSE SubSeq(r.out, 1, r.first_none)

Live(i) == iters[i].some /\ iters[i].st = "live"

\* ------------------------------------------------------------------------
\* The claims
\* ------------------------------------------------------------------------
\* C1: an iterator over a channel with a standard non-string index in
\* non-interleaved segments yields, before its first None, exactly the sum over
\* the chunks of the channel of number_of_values values: it never yields more,
\* and when it returns None it has yielded that many.
C1_SampleCount ==
    \A i \in IterIds :
        (/\ Live(i)
         /\ iters[i].it.kind # T_String
         /\ \A k \in HoldingSegs(desc, FullPath(iters[i])) :
               ~desc[k].inter /\ desc[k].nchunks > 0)
        => /\ Len(BeforeNone(iters[i])) <= TrueCount(desc, FullPath(iters[i]))
           /\ iters[i].first_none # -1
                  => iters[i].first_none = TrueCount(desc, FullPath(iters[i]))

\* C2: when a later segment lists the channel with "same as previous segment",
\* the iterator yields the samples of the first segment and then those of the
\* later one, laid out by the descriptor of the first.
C2_InheritedDescriptor ==
    \A i \in IterIds :
        (/\ Live(i)
         /\ iters[i].it.kind \notin {T_String, T_Boolean}
         /\ Len(desc) = 2
         /\ \A k \in 1..2 : ~desc[k].inter /\ desc[k].nchunks > 0
         /\ \E j \in 1..Len(desc[2].objs) :
               desc[2].objs[j].path = FullPath(iters[i]) /\ desc[2].objs[j].idx = "same")
        => /\ IsPrefix(BeforeNone(iters[i]), TrueSamples(desc, FullPath(iters[i])))
           /\ iters[i].first_none # -1
                  => BeforeNone(iters[i]) = TrueSamples(desc, FullPath(iters[i]))

\* C3: the file offsets of consecutive values an iterator yields are strictly
\* increasing: a chunk or a sample is never read again.
C3_OffsetsIncrease ==
    \A i \in IterIds :
        Live(i) => \A j \in 1..(Len(iters[i].out) - 1) :
                       iters[i].out[j].off < iters[i].out[j + 1].off

\* C4: opening a file indexes every segment once and in file order. The first
\* lead-in is read at offset 0, each following one at the offset of the one
\* before plus 28 plus its next_segment_offset; every lead-in read is that of a
\* segment of the file, the pass that finds the offset at the file length ends
\* the indexing, and the list then has one segment per lead-in of the chain.
C4_SegmentChain ==
    /\ Len(open.lead_ins) <= Len(desc)
    /\ Len(open.segments) <= Len(open.lead_ins)
    /\ \A k \in 1..Len(open.lead_ins) : open.lead_ins[k] = WSegStart(desc, k)
    /\ \A k \in 1..Len(open.segments) :
          /\ open.segments[k].lead_in = LeadIn_from_bytes(Slice(bytes, open.lead_ins[k], LeadInSize))
          /\ LET following == open.lead_ins[k] + LeadInSize
                                  + open.segments[k].lead_in.next_segment_offset
             IN  IF k < Len(open.lead_ins) THEN open.lead_ins[k + 1] = following
                 ELSE open.offset = following
    /\ open.st = "indexing" => Len(open.segments) = Len(open.lead_ins)
    /\ open.st = "indexing" /\ open.segments = << >> => open.offset = 0
    /\ open.st = "ok" => /\ open.offset = Len(bytes)
                         /\ Len(open.segments) = Len(desc)
                         /\ Len(open.lead_ins) = Len(desc)

\* a file of two segments is open and both are in the list
C4_Witness == open.st = "ok" /\ Len(desc) = 2 /\ Len(open.segments) = 2

\* C5: for every indexed segment, start_pos is the offset of its lead-in (0 for
\* the first segment) and start_pos + 28 + next_segment_offset = end_pos.
C5_SegmentExtent ==
    \A k \in 1..Len(open.segments) :
        /\ open.segments[k].start_pos = open.lead_ins[k]
        /\ open.segments[k].start_pos + LeadInSize
               + open.segments[k].lead_in.next_segment_offset = open.segments[k].end_pos

\* C6: a file with an interleaved segment of n channels is indexed, and the
\* iterator of its j-th channel yields samples j, j + n, j + 2n, ... of every
\* chunk, number_of_values of them per chunk.
C6_Interleaved ==
    (\E k \in 1..Len(desc) : desc[k].inter /\ desc[k].nchunks > 0)
    => /\ open.st \in {"indexing", "ok"}
       /\ \A i \in IterIds :
             Live(i) => /\ IsPrefix(BeforeNone(iters[i]), TrueSamples(desc, FullPath(iters[i])))
                        /\ iters[i].first_none # -1
                               => BeforeNone(iters[i]) = TrueSamples(desc, FullPath(iters[i]))

Vals(out) == [j \in 1..Len(out) |-> out[j].val]

\* C7: the iterator of a string channel yields, for every chunk, number_of_values
\* strings, each delimited by the end offsets of the offset table of that chunk.
C7_Strings ==
    \A i \in IterIds :
        (/\ Live(i)
         /\ iters[i].it.kind = T_String
         /\ \A k \in 1..Len(desc) : ~desc[k].inter /\ desc[k].nchunks > 0)
        => /\ IsPrefix(Vals(BeforeNone(iters[i])), Vals(TrueSamples(desc, FullPath(iters[i]))))
           /\ iters[i].first_none # -1
                  => Vals(BeforeNone(iters[i])) = Vals(TrueSamples(desc, FullPath(iters[i])))

\* iterator i makes a call of next() in this step
Called(i) == Live(i) /\ iters'[i].calls = iters[i].calls + 1

\* C8: every iterator is finite. next() is a function of the iterator and of
\* where its reader stands, so a finite iterator never returns a value from a
\* call that leaves both as they were before the call (it would return that
\* value for ever), and its advance step never recurses without end.
C8_Finite ==
    [][\A i \in IterIds :
          Called(i) => /\ iters'[i].st # "diverge"
                       /\ iters'[i].last = "some"
                              => <<iters'[i].it, readers'[iters'[i].it.reader]>>
                                     # <<iters[i].it, readers[iters[i].it.reader]>>]_vars

\* C9: once next() has returned None because the last chunk of the last segment
\* was passed, every later call returns None.
C9_StaysExhausted ==
    [][\A i \in IterIds :
          Called(i) /\ iters[i].last = "none" /\ iters[i].why = "EndOfSegments"
              => iters'[i].last = "none"]_vars

\* the listed channel iterator record r was made for
ListedOf(r) == CHOOSE c \in Listed : c[1] = r.it.group_path /\ c[2] = r.it.path

\* the record and the reader of an iterator that makes n calls on its own
RECURSIVE Alone(_, _)
Alone(a, n) == IF n = 0 \/ a.rec.st # "live" THEN a ELSE Alone(AfterNext(a.rec, a.pos), n - 1)

GroupOf(p) ==
    LET close == CHOOSE j \in 3..Len(p) : p[j] = Quote /\ \A i \in 3..(j - 1) : p[i] # Quote
    IN  SubSeq(p, 3, close - 1)

\* an object path with a group and a channel component
IsChannelPath(p) == Cardinality({i \in 1..Len(p) : p[i] = Slash}) = 2

\* the object paths of the file in file order
AllObjectPaths(descs) == Flatten([k \in 1..Len(descs) |-> Paths(descs[k].objs)])

\* C11: once the file is open, groups() is the list of the group paths that
\* occur in the metadata of any segment, as a group object or as the group
\* component of a channel object, each exactly once and in the order of
\* their first appearance in the file
C11_Groups ==
    LET paths == AllObjectPaths(desc)
        \* the names of a sequence, each once, in the order of first appearance
        RECURSIVE FirstSeen(_, _)
        FirstSeen(names, acc) ==
            IF names = << >> THEN acc
            ELSE FirstSeen(Tail(names),
                           IF \E j \in 1..Len(acc) : acc[j] = Head(names) THEN acc
                           ELSE Append(acc, Head(names)))
    IN  open.st = "ok" =>
            groups(open.segments) = FirstSeen([i \in 1..Len(paths) |-> GroupOf(paths[i])], << >>)

\* C12: once the file is open, the keys of channels(group) are the channel
\* paths declared under the group in any segment, each once, and every key
\* maps to the Channel entry of the last segment, in file order, that holds
\* the channel
C12_Channels ==
    LET paths == {AllObjectPaths(desc)[i] : i \in 1..Len(AllObjectPaths(desc))}
        \* the name between the last pair of quotes of a channel path
        ChannelNameOf(p) ==
            LET open_q == CHOOSE j \in 1..(Len(p) - 1) :
                              p[j] = Quote /\ \A i \in (j + 1)..(Len(p) - 1) : p[i] # Quote
            IN  SubSeq(p, open_q + 1, Len(p) - 1)
        \* the channel names the channel objects of group g have, in any segment
        Declared(g) == {ChannelNameOf(p) : p \in {q \in paths : IsChannelPath(q) /\ GroupOf(q) = g}}
        \* the last segment whose metadata holds the channel object /g/c
        LastSegmentWith(g, c) ==
            CHOOSE k \in 1..Len(desc) :
                /\ \E i \in 1..Len(desc[k].objs) : desc[k].objs[i].path = ChanPath(g, c)
                /\ \A j \in (k + 1)..Len(desc) :
                       \A i \in 1..Len(desc[j].objs) : desc[j].objs[i].path # ChanPath(g, c)
    IN  open.st = "ok" =>
            \A g \in {GroupG, GroupH} :
                LET map == channels(open.segments, g)
                IN  /\ {map[i].path : i \in 1..Len(map)} = Declared(g)
                    /\ Len(map) = Cardinality(Declared(g))
                    /\ \A i \in 1..Len(map) :
                           /\ map[i].seg = LastSegmentWith(g, map[i].path)
                           /\ get_channel(open.segments[map[i].seg], g, map[i].path).some

\* a file is open in which a channel declared in both segments maps to the
\* second and a channel declared in the first only maps to the first
C12_Witness ==
    /\ open.st = "ok"
    /\ Len(desc) = 2
    /\ LET map == channels(open.segments, GroupG)
       IN  /\ \E i \in 1..Len(map) :
                  /\ map[i].seg = 2
                  /\ \E j \in 1..Len(desc[1].objs) :
                         desc[1].objs[j].path = ChanPath(GroupG, map[i].path)
           /\ \E i \in 1..Len(map) : map[i].seg = 1

\* ------------------------------------------------------------------------
\* The numbers a run of bytes stands for
\* ------------------------------------------------------------------------
RECURSIVE LeValue(_)
LeValue(bs) == IF bs = << >> THEN 0 ELSE Head(bs) + 256 * LeValue(Tail(bs))

RECURSIVE BeValue(_)
BeValue(bs) ==
    IF bs = << >> THEN 0 ELSE 256 * BeValue(SubSeq(bs, 1, Len(bs) - 1)) + bs[Len(bs)]

\* C13: for every 28-byte lead-in with a valid tag that is read, the parser
\* returns the ToC word as the little-endian value of bytes 4..8 whatever the
\* kBigEndian bit says, and version, next_segment_offset and raw_data_offset
\* as exactly the values of bytes 8..12, 12..20 and 20..28, big-endian if and
\* only if ToC bit 0x40 is set; an indexed segment keeps that lead-in
C13_LeadIn ==
    LET \* the 28 bytes read at the k-th lead-in position
        LeadInAt(k) == SubSeq(bytes, open.lead_ins[k] + 1, open.lead_ins[k] + LeadInSize)
        \* the fields of the 28-byte lead-in b
        LeadInFields(b) ==
            LET big == (b[5] \div 64) % 2 = 1
                Value(bs) == IF big THEN BeValue(bs) ELSE LeValue(bs)
            IN  [st |-> "ok",
                 tag |-> SubSeq(b, 1, 4),
                 table_of_contents |-> LeValue(SubSeq(b, 5, 8)),
                 version_number |-> Value(SubSeq(b, 9, 12)),
                 next_segment_offset |-> Value(SubSeq(b, 13, 20)),
                 raw_data_offset |-> Value(SubSeq(b, 21, 28))]
    IN  \A k \in 1..Len(open.lead_ins) :
            (/\ open.lead_ins[k] + LeadInSize <= Len(bytes)
             /\ SubSeq(LeadInAt(k), 1, 4) = <<84, 68, 83, 109>>)
            => /\ LeadIn_from_bytes(LeadInAt(k)) = LeadInFields(LeadInAt(k))
               /\ k <= Len(open.segments)
                  => open.segments[k].lead_in = LeadInFields(LeadInAt(k))

\* a big-endian file of two segments is open
C13_Witness ==
    /\ open.st = "ok"
    /\ Len(open.segments) = 2
    /\ HasBit(open.segments[1].lead_in.table_of_contents, K_TOC_BIG_ENDIAN)
    /\ open.segments[2].lead_in.next_segment_offset > 0

\* C14: when fewer than 28 bytes are available at the position of a segment's
\* lead-in (one that open read, or the first one of a file of no bytes), open
\* ends with an error value: it neither returns Ok nor panics nor runs on
C14_ShortLeadIn ==
    (/\ open.st # "indexing"
     /\ \/ Len(bytes) = 0
        \/ \E k \in 1..Len(open.lead_ins) : Len(bytes) < open.lead_ins[k] + LeadInSize)
    => open.st = "err"

\* four bytes other than 54 44 53 6D stand at a lead-in position that open read
BadTagRead ==
    \E k \in 1..Len(open.lead_ins) :
        /\ open.lead_ins[k] + 4 <= Len(bytes)
        /\ SubSeq(bytes, open.lead_ins[k] + 1, open.lead_ins[k] + 4) # <<84, 68, 83, 109>>

\* C15: when the first four bytes of a lead-in reached during indexing are
\* not 54 44 53 6D, open fails with InvalidSegment and hands out no file: no
\* segment list to read from and no iterator, whichever segment it is
C15_InvalidSegment ==
    BadTagRead => /\ open.st = "err"
                  /\ open.err = "InvalidSegment"
                  /\ \A i \in IterIds : ~iters[i].some

\* open has failed on the second lead-in after it indexed the first segment
C15_Witness ==
    /\ BadTagRead
    /\ open.st = "err"
    /\ Len(open.lead_ins) = 2
    /\ Len(open.segments) = 1

\* C16: the data-type registry accepts exactly the wire codes 0..11, 0x19,
\* 0x1a, 0x1b, 0x20, 0x21, 0x44, 0x4F, 0x0800000C, 0x1000000D and 0xFFFFFFFF
\* (-1 as an i32), each giving the variant of that code, and fails with
\* UnknownDataType for every other code: read as the data type of the raw
\* data index of the only channel of a file
C16_Registry ==
    LET Claimed == (0..11) \cup {25, 26, 27, 32, 33, 68, 79, 134217740, 268435469, -1}
        code == desc[1].objs[1].dtype
    IN  (open.st # "indexing" /\ Len(desc) = 1 /\ desc[1].nchunks = 0)
        => IF code \in Claimed
           THEN /\ open.err # "UnknownDataType"
                /\ open.st = "ok"
                   => get_channel(open.segments[1], GroupG, ChanA).data_type = code
           ELSE open.st = "err" /\ open.err = "UnknownDataType"

\* C16 as the code has it: the registry accepts exactly the wire codes 0..11,
\* 0x19, 0x1a, 0x1b, 0x20, 0x21, 0x44, 0x4F, 0x08000C (ComplexSingleFloat),
\* 0x10000D (ComplexDoubleFloat) and 0xFFFFFFFF, each giving the variant of
\* that code, and fails with UnknownDataType for every other code
C16_RegistryAsCoded ==
    LET Accepted == (0..11) \cup {25, 26, 27, 32, 33, 68, 79, 524300, 1048589, -1}
        code == desc[1].objs[1].dtype
    IN  (open.st # "indexing" /\ Len(desc) = 1 /\ desc[1].nchunks = 0)
        => IF code \in Accepted
           THEN /\ open.err # "UnknownDataType"
                /\ open.st = "ok"
                   => get_channel(open.segments[1], GroupG, ChanA).data_type = code
           ELSE open.st = "err" /\ open.err = "UnknownDataType"

\* a file whose channel has the type code 0x08000C is open
C16_Witness ==
    /\ open.st = "ok"
    /\ Len(desc) = 1
    /\ desc[1].nchunks = 0
    /\ desc[1].objs[1].dtype = 524300
    /\ get_channel(open.segments[1], GroupG, ChanA).data_type = 524300

\* C17: when a segment names a channel with neither a raw data index nor a
\* DAQmx index and no earlier segment holds a descriptor for that channel,
\* indexing the segment fails and so does open; no segment is made in which
\* the channel is registered without a descriptor
C17_OrphanChannel ==
    LET Describes(j, p) ==
            \E i \in 1..Len(desc[j].objs) :
                desc[j].objs[i].path = p /\ desc[j].objs[i].idx \in {"std", "daqmx", "lines"}
        Orphan(k) ==
            \E i \in 1..Len(desc[k].objs) :
                /\ IsChannelPath(desc[k].objs[i].path)
                /\ desc[k].objs[i].idx \in {"same", "none"}
                /\ \A j \in 1..(k - 1) : ~Describes(j, desc[k].objs[i].path)
    IN  /\ (open.st # "indexing" /\ \E k \in 1..Len(desc) : Orphan(k)) => open.st = "err"
        /\ \A k \in 1..Len(open.segments) : ~Orphan(k)

\* C18: a channel object without a descriptor in segment k, of a channel that
\* has a raw data index in some segment before k, is indexed in segment k with
\* the raw data index of the nearest such segment, whether or not the segments
\* in between name the channel
C18_NearestPrior ==
    LET Names == {GroupG, GroupH} \X {ChanA, ChanB}
        Daqmx(j, p) ==
            \E i \in 1..Len(desc[j].objs) :
                desc[j].objs[i].path = p /\ desc[j].objs[i].idx \in {"daqmx", "lines"}
        Inherits(k, n) ==
            /\ \E i \in 1..Len(desc[k].objs) :
                  /\ desc[k].objs[i].path = ChanPath(n[1], n[2])
                  /\ desc[k].objs[i].idx \in {"same", "none"}
            /\ WLastStd(desc, k - 1, ChanPath(n[1], n[2])) # None
            /\ \A j \in 1..(k - 1) : ~Daqmx(j, ChanPath(n[1], n[2]))
        Same(index, o) ==
            /\ index.some
            /\ index.data_type = o.dtype
            /\ index.number_of_values = o.nvals
    IN  \A k \in 1..Len(open.segments) : \A n \in Names :
            Inherits(k, n)
            => Same(get_channel(open.segments[k], n[1], n[2]).raw_data_index,
                    WLastStd(desc, k - 1, ChanPath(n[1], n[2])))

\* C19: no segment is indexed whose raw data extent, next_segment_offset less
\* raw_data_offset (which is end_pos - start_pos - 28 - raw_data_offset), is
\* negative or, when chunk_size > 0, not a multiple of chunk_size: the indexer
\* fails on such a segment, so the list of segments never holds one
C19_RawDataExtent ==
    \A k \in 1..Len(open.segments) :
        LET segment == open.segments[k]
            raw_len == segment.lead_in.next_segment_offset - segment.lead_in.raw_data_offset
        IN  /\ raw_len >= 0
            /\ segment.chunk_size > 0 => raw_len % segment.chunk_size = 0

\* C20: no iterator stands over a DAQmx raw data channel, and asking for an
\* iterator in a file whose channels are all DAQmx channels reports
\* NotImplemented; with no iterator, no value of such a channel is yielded
C20_NoDAQmxIterator ==
    \A i \in IterIds :
        iters[i].some
        => /\ Live(i) => ChannelOf(iters[i].it).data_type # T_DAQmxRawData
           /\ (\A k \in 1..Len(desc) : \A j \in 1..Len(desc[k].objs) :
                    desc[k].objs[j].idx \in {"daqmx", "lines"})
              => iters[i].st = "NotImplemented"

\* C21: for every supported data type, the size the segment indexer lays a
\* sample out with (the chunk_size of a segment whose only channel holds one
\* value of the type) and the bytes an iterator of the type consumes for an
\* emitted sample are the width of the table: 1, 2, 4, 8, 16 for TimeStamp,
\* 8 for ComplexSingleFloat and 16 for ComplexDoubleFloat
C21_Widths ==
    LET TableWidth(code) ==
            CASE code \in {1, 5, 33} -> 1
              [] code \in {2, 6} -> 2
              [] code \in {3, 7, 9} -> 4
              [] code \in {4, 8, 10} -> 8
              [] code = 68 -> 16
              [] code = 524300 -> 8
              [] code = 1048589 -> 16
        Supported == {1, 2, 3, 4, 5, 6, 7, 8, 9, 10, 33, 68, 524300, 1048589}
    IN  /\ (open.st = "ok" /\ Len(desc) = 1 /\ desc[1].nchunks = 0
             /\ desc[1].objs[1].dtype \in Supported)
            => open.segments[1].chunk_size = TableWidth(desc[1].objs[1].dtype)
        /\ \A i \in IterIds :
               (Live(i) /\ iters[i].last = "some" /\ iters[i].it.kind \in Supported)
               => readers[iters[i].it.reader] - iters[i].out[Len(iters[i].out)].off
                      = TableWidth(iters[i].it.kind)

\* C22: in every indexed segment that is not interleaved, the first chunk of
\* the i-th channel with raw data is the file byte range that starts at the
\* first raw data byte of the segment plus the spans of the channels before
\* it (plus the offset table for a string channel) and ends after its own
\* span, and chunk_size is the sum of the spans
C22_FirstChunk ==
    \A k \in 1..Len(open.segments) :
        LET segment == open.segments[k]
            eff == WEff(desc, k)
            Chans == UNION {{segment.groups[g].chans[c] :
                                c \in 1..Len(segment.groups[g].chans)} :
                            g \in 1..Len(segment.groups)}
            First(i) ==
                <<WDataStart(desc, k) + WChanOff(eff, i)
                      + (IF eff[i].dtype = T_String THEN 4 * eff[i].nvals ELSE 0),
                  WDataStart(desc, k) + WChanOff(eff, i) + WSpan(eff[i])>>
        IN  ~desc[k].inter
            => /\ segment.chunk_size = WChunkSize(eff, FALSE)
               /\ \A i \in 1..Len(eff) : \E channel \in Chans :
                      /\ channel.full_path = eff[i].path
                      /\ channel.chunk_positions[1] = First(i)

\* C23: in an indexed segment that is not interleaved and has chunk_size > 0,
\* the chunk_positions of every channel that is not a DAQmx channel are its
\* first chunk moved by k * chunk_size for k = 0 .. chunk_count - 1, with
\* chunk_count the raw data extent divided by chunk_size: one entry per
\* chunk, each with start < end <= end_pos, and no two channels overlap
C23_ChunkList ==
    \A k \in 1..Len(open.segments) :
        LET segment == open.segments[k]
            chunk_count == (segment.lead_in.next_segment_offset
                               - segment.lead_in.raw_data_offset) \div segment.chunk_size
            Chans == UNION {{segment.groups[g].chans[c] :
                                c \in 1..Len(segment.groups[g].chans)} :
                            g \in 1..Len(segment.groups)}
            Overlap(p, q) == p[1] < q[2] /\ q[1] < p[2]
        IN  (~has_interleaved_data(segment) /\ segment.chunk_size > 0)
            => /\ \A channel \in Chans :
                      channel.data_type # T_DAQmxRawData
                      => /\ Len(channel.chunk_positions) = chunk_count
                         /\ \A n \in 1..Len(channel.chunk_positions) :
                               /\ channel.chunk_positions[n]
                                      = <<channel.chunk_positions[1][1]
                                              + (n - 1) * segment.chunk_size,
                                          channel.chunk_positions[1][2]
                                              + (n - 1) * segment.chunk_size>>
                               /\ channel.chunk_positions[n][1] < channel.chunk_positions[n][2]
                               /\ channel.chunk_positions[n][2] <= segment.end_pos
               /\ \A a \in Chans : \A b \in Chans :
                      a.full_path # b.full_path
                      => \A m \in 1..Len(a.chunk_positions) :
                            \A n \in 1..Len(b.chunk_positions) :
                               ~Overlap(a.chunk_positions[m], b.chunk_positions[n])

\* C24: once open has read the lead-in of an interleaved segment, the segment
\* is indexed and every channel of it has interleaved_offset = r - size of
\* its own type, r being the sum of the sizes of the types of its channels
C24_InterleavedOffset ==
    \A k \in 1..Len(desc) :
        (desc[k].inter /\ Len(open.lead_ins) >= k)
        => /\ Len(open.segments) >= k
           /\ \A g \in 1..Len(open.segments[k].groups) :
                 \A c \in 1..Len(open.segments[k].groups[g].chans) :
                    open.segments[k].groups[g].chans[c].interleaved_offset
                        = WRowSize(WEff(desc, k))
                              - get_size(open.segments[k].groups[g].chans[c].data_type)

\* C25: indexing a segment always ends: the chunk replication loop never runs
\* without end, whatever chunk_size the segment has
C25_IndexingEnds == open.st # "hang"

\* ------------------------------------------------------------------------
\* What the parser makes of the metadata of segment k, object by object.
\* The word after the path of an object selects the descriptor; the type
\* code of a standard index is looked for `shift` bytes after that word.
\* ------------------------------------------------------------------------
SentinelDispatch(k, shift) ==
    LET big == desc[k].big
        objs == desc[k].objs
        parsed == Metadata_from_reader(big, Slice(bytes, WSegStart(desc, k) + LeadInSize,
                                                  WMetaLen(desc[k])))
        \* offset in the file of the word after the path of object i
        At(i) == WSegStart(desc, k) + LeadInSize + 4
                     + SumSeq([j \in 1..(i - 1) |-> Len(WObjBytes(objs[j], big))])
                     + 4 + Len(objs[i].path)
        Word(a, n) == IF big THEN Reverse(SubSeq(bytes, a + 1, a + n))
                      ELSE SubSeq(bytes, a + 1, a + n)
        Num(a, n) == IF Word(a, n) = <<255, 255, 255, 255>> THEN -1 ELSE LeValue(Word(a, n))
        Selected(i, obj) ==
            CASE Word(At(i), 4) \in {<<255, 255, 255, 255>>, <<0, 0, 0, 0>>} ->
                     /\ ~obj.raw_data_index.some
                     /\ ~obj.daqmx_data_index.some
                     /\ obj.num_of_properties = Num(At(i) + 4, 4)
              [] Word(At(i), 4) \in {<<105, 18, 0, 0>>, <<0, 0, 18, 105>>, <<106, 18, 0, 0>>,
                                      <<105, 19, 0, 0>>, <<0, 0, 19, 105>>} ->
                     /\ ~obj.raw_data_index.some
                     /\ obj.daqmx_data_index.some
              [] OTHER ->
                     /\ obj.raw_data_index.some
                     /\ ~obj.daqmx_data_index.some
                     /\ obj.raw_data_index.data_type = Num(At(i) + shift, 4)
                     /\ obj.raw_data_index.array_dimension = Num(At(i) + shift + 4, 4)
                     /\ obj.raw_data_index.number_of_values = Num(At(i) + shift + 8, 8)
    IN  /\ parsed.st = "ok"
        /\ Len(parsed.objects) = Len(objs)
        /\ \A i \in 1..Len(objs) : Selected(i, parsed.objects[i])

\* C26: in the metadata of every segment with metadata that open reads (whose type codes
\* are known ones), the word after the path of an object selects the
\* descriptor: 0xFFFFFFFF and 0 none, with the property count next; the
\* DAQmx words a DAQmx index; any other word a standard index whose type
\* code is that word itself, followed by the dimension and number of values
C26_Sentinel ==
    \A k \in 1..Len(open.lead_ins) :
        (desc[k].meta /\ \A i \in 1..Len(desc[k].objs) :
             desc[k].objs[i].idx = "std" => desc[k].objs[i].dtype \in KnownTypeCodes)
        => SentinelDispatch(k, 0)

\* C26 as the code has it: any other word is the length of a standard index
\* that follows it: the type code is the next word, then come the dimension
\* and the number of values
C26_SentinelAsCoded ==
    \A k \in 1..Len(open.lead_ins) :
        (desc[k].meta /\ \A i \in 1..Len(desc[k].objs) :
             desc[k].objs[i].idx = "std" => desc[k].objs[i].dtype \in KnownTypeCodes)
        => SentinelDispatch(k, 4)

\* a file is open whose segments hold an object without index, a standard
\* index, a format changing scaler index and a digital line scaler index
C26_Witness ==
    /\ open.st = "ok"
    /\ Len(open.segments) = 2
    /\ desc[1].objs = <<NoDataObj(PathA), StdObj(PathB, T_I16, 1)>>
    /\ desc[2].objs = <<DaqmxLinesObj(PathA, 1), StdObj(PathB, T_I16, 1)>>
    /\ open.segments[2].metadata[1].daqmx_data_index.some
    /\ open.segments[2].metadata[2].raw_data_index.data_type = T_I16

\* C27: when open reads the lead-in of a segment without kTocMetaData, the
\* segment is indexed without any metadata object (nothing is parsed, the
\* bytes of the lead-in least of all), and open goes on to the lead-in of
\* the segment after it or ends with the file open
C27_NoMetaData ==
    \A k \in 1..Len(desc) :
        (~desc[k].meta /\ Len(open.lead_ins) >= k)
        => /\ Len(open.segments) >= k
           /\ open.segments[k].metadata = << >>
           /\ open.st \in {"indexing", "ok"}
           /\ Len(open.lead_ins) > k => open.lead_ins[k + 1] = WSegStart(desc, k + 1)

\* C28: a string iterator starts with offset index 0 and previous offset 0,
\* and a call of next() that moves to a later segment, loads its offset
\* table and takes the first offset of it reads a string of exactly that
\* many bytes: the subtraction does not underflow, a value returned has the
\* length offset[0], and a read of offset[0] = 0 bytes cannot fail
C28_OffsetsReset ==
    [][\A i \in IterIds :
          /\ (~iters[i].some /\ iters'[i].some /\ iters'[i].st = "live"
                 /\ iters'[i].it.kind = T_String)
             => /\ iters'[i].it.string_offset_index = 0
                /\ iters'[i].it.string_previous_offset = 0
          /\ (Called(i) /\ iters[i].it.kind = T_String
                 /\ iters'[i].it.chan_seg # iters[i].it.chan_seg
                 /\ iters'[i].it.string_offsets # << >>
                 /\ iters'[i].it.string_offset_index <= 1)
             => /\ iters'[i].st = "live"
                /\ iters'[i].it.string_offset_index = 1
                /\ iters'[i].last = "some"
                       => Len(iters'[i].out[Len(iters'[i].out)].val)
                              = iters'[i].it.string_offsets[1]
                /\ (iters'[i].last = "none" /\ iters'[i].why = "read_exact")
                       => iters'[i].it.string_offsets[1] > 0]_vars

\* C29: every value a next() call returns, whatever the target type (bool as
\* well), was decoded from bytes that lie wholly inside one [start, end) chunk
\* range of the channel the iterator holds for its current segment.
C29_InsideChunk ==
    [][\A i \in IterIds :
          (Called(i) /\ iters'[i].st = "live" /\ iters'[i].last = "some")
              => LET item == iters'[i].out[Len(iters'[i].out)]
                     positions == ChannelOf(iters'[i].it).chunk_positions
                 IN  /\ iters'[i].it.chan_seg
                            = iters'[i].it.segments[iters'[i].it.current_segment_index + 1]
                     /\ \E n \in 1..Len(positions) :
                            /\ positions[n][1] <= item.off
                            /\ item.off + Len(item.val) <= positions[n][2]]_vars

\* C30: across next() calls, made after an error or after exhaustion as well,
\* the current segment index of an iterator never decreases, and the channel
\* the iterator holds and its current chunk position belong to the segment at
\* that index.
C30_SegmentIndex ==
    [][\A i \in IterIds :
          /\ Called(i) => iters'[i].it.current_segment_index
                              >= iters[i].it.current_segment_index
          /\ (iters'[i].some /\ iters'[i].st = "live")
                 => LET it == iters'[i].it
                    IN  /\ it.current_segment_index < Len(it.segments)
                        /\ it.chan_seg = it.segments[it.current_segment_index + 1]
                        /\ \E n \in 1..Len(ChannelOf(it).chunk_positions) :
                               ChannelOf(it).chunk_positions[n] = it.current_pos]_vars

====
